---- MODULE Spec2Model ----
(***************************************************************************)
(* HexHunter: the GPU vanity-address pipeline of the secp256k1 family.     *)
(*                                                                         *)
(* The model keeps the structure of the code and scales its sizes down so  *)
(* that every case can be enumerated:                                      *)
(*   - the field prime is 229 = 16^2 - 16 - 11 (secp256k1: 2^256 - 2^32 -  *)
(*     977) and the curve is y^2 = x^3 + 6 over it, a group of prime order *)
(*     223;                                                                *)
(*   - a scalar is one byte where the code keeps 32, so that, as for       *)
(*     secp256k1, CurveN < FieldP < ScalarMod = 2^8;                       *)
(*   - a batch has 4 lanes in workgroups of 2 (code: 2^20 and 256);        *)
(*   - an address has 2 bytes (code: 20), and Keccak-256 is an injective   *)
(*     mixing function of the affine coordinates.                          *)
(***************************************************************************)
EXTENDS Integers, Sequences, FiniteSets, TLC

(* ---------------------------------------------------------------------- *)
(* Sizes                                                                   *)
(* ---------------------------------------------------------------------- *)

\* P_CONST of the kernels, scaled.
FieldP == 229
\* The order of the generator (secp256k1's N), scaled.
CurveN == 223
\* 2^256, the range of a 32-byte scalar, scaled.
ScalarMod == 256
\* The generator point G of the scaled curve (curve.Gx, curve.Gy).
Gx == 2
Gy == 48
\* Lanes per batch = entries of the table (code: 1 << 20).
globalWorkSize == 4
\* Lanes per workgroup (code: 256).
localWorkSize == 2
\* Bytes of an address (code: 20).
AddrBytes == 2
\* Bytes of a private key (code: 32); ScalarMod = 256^KeyLen.
KeyLen == 1

\* Batches one search may run before the model stops it.
MaxBatches == 3
\* Searches the caller may start on one generator.
MaxSearches == 2

Lanes == 0 .. (globalWorkSize - 1)
Lids == 0 .. (localWorkSize - 1)
Fe == 0 .. (FieldP - 1)
Infinity == <<0, 0>>

(* ---------------------------------------------------------------------- *)
(* Field arithmetic of the kernel                                          *)
(* ---------------------------------------------------------------------- *)

is_zero(a) == a = 0

\* add_c then one conditional subtraction of P.
mod_add(a, b) == IF a + b >= FieldP THEN a + b - FieldP ELSE a + b

\* sub_b then one conditional addition of P.
mod_sub(a, b) == IF a - b < 0 THEN a - b + FieldP ELSE a - b

mod_mul(a, b) == (a * b) % FieldP

\* Square-and-multiply over the bits of the exponent, low bit first.
RECURSIVE mod_pow_loop(_, _, _)
mod_pow_loop(r, b, e) ==
    IF e = 0 THEN r
    ELSE mod_pow_loop(IF e % 2 = 1 THEN mod_mul(r, b) ELSE r, mod_mul(b, b), e \div 2)

mod_pow(base, exp) == mod_pow_loop(1, base, exp)

\* Fermat: a^(P-2).  The inverse of 0 is 0.
mod_inv(a) == mod_pow(a, FieldP - 2)

(* ---------------------------------------------------------------------- *)
(* Mixed addition: Jacobian p + affine q -> Jacobian                       *)
(* ---------------------------------------------------------------------- *)

j_add_mixed(p, q) ==
    IF is_zero(p[3]) THEN <<q[1], q[2], 1>>
    ELSE IF is_zero(q[1]) /\ is_zero(q[2]) THEN p
    ELSE
      LET Z1Z1 == mod_mul(p[3], p[3])
          U2   == mod_mul(q[1], Z1Z1)
          S2   == mod_mul(mod_mul(q[2], p[3]), Z1Z1)
          H    == mod_sub(U2, p[1])
          HH   == mod_mul(H, H)
          I2   == mod_add(HH, HH)
          I    == mod_add(I2, I2)
          J    == mod_mul(H, I)
          r0   == mod_sub(S2, p[2])
          r    == mod_add(r0, r0)
          V    == mod_mul(p[1], I)
          rx   == mod_sub(mod_sub(mod_sub(mod_mul(r, r), J), V), V)
          t0   == mod_mul(p[2], J)
          ry   == mod_sub(mod_mul(r, mod_sub(V, rx)), mod_add(t0, t0))
          rz0  == mod_mul(p[3], H)
          rz   == mod_add(rz0, rz0)
      IN  <<rx, ry, rz>>

(* ---------------------------------------------------------------------- *)
(* The reference curve library used on the CPU                             *)
(* ---------------------------------------------------------------------- *)

\* curve.Add: affine addition with doubling and the point at infinity.
CurveAdd(p, q) ==
    IF p = Infinity THEN q
    ELSE IF q = Infinity THEN p
    ELSE IF p[1] = q[1] /\ (p[2] + q[2]) % FieldP = 0 THEN Infinity
    ELSE
      LET l == IF p[1] = q[1]
               THEN mod_mul(mod_mul(3, mod_mul(p[1], p[1])), mod_inv(mod_mul(2, p[2])))
               ELSE mod_mul(mod_sub(q[2], p[2]), mod_inv(mod_sub(q[1], p[1])))
          x == mod_sub(mod_sub(mod_mul(l, l), p[1]), q[1])
          y == mod_sub(mod_mul(l, mod_sub(p[1], x)), p[2])
      IN  <<x, y>>

\* curve.ScalarMult: double-and-add over the bits of the scalar.
RECURSIVE ScalarMult(_, _)
ScalarMult(p, k) ==
    IF k = 0 THEN Infinity
    ELSE LET h == ScalarMult(p, k \div 2)
             d == CurveAdd(h, h)
         IN  IF k % 2 = 1 THEN CurveAdd(d, p) ELSE d

\* k*G for every scalar below the group order.
Multiples == [k \in 0 .. (CurveN - 1) |-> ScalarMult(<<Gx, Gy>>, k)]

\* curve.ScalarBaseMult on a scalar the library accepts.
ScalarBaseMult(k) == Multiples[k % CurveN]

(* ---------------------------------------------------------------------- *)
(* tables.bin: the three writers                                           *)
(* ---------------------------------------------------------------------- *)
\* A table is a sequence of affine points; entry i of the file (bytes
\* [64i, 64i+64), X then Y, little-endian) is element i+1 of the sequence.

Entry(t, i) == t[i + 1]

\* ethereum.GenerateTable: entry 0 stays zero, entry 1 is G, entry i is the
\* previous point plus G.
RECURSIVE GenerateTableLoop(_, _, _)
GenerateTableLoop(buf, i, current) ==
    IF i >= globalWorkSize THEN buf
    ELSE IF i = 0 THEN GenerateTableLoop(Append(buf, Infinity), 1, current)
    ELSE LET next == IF i = 1 THEN <<Gx, Gy>> ELSE CurveAdd(current, <<Gx, Gy>>)
         IN  GenerateTableLoop(Append(buf, next), i + 1, next)

\* A table without the zero entry: entry i is (i + 1) * G.
GenerateTableFromG == [i \in 1 .. globalWorkSize |-> ScalarBaseMult(i)]

GenerateTable == GenerateTableLoop(<<>>, 0, Infinity)

\* cmd/gen_tables main: the same loop, one file.Write per entry.
gen_tables_main == GenerateTableLoop(<<>>, 0, Infinity)

\* tron.generateTable: entry i is ScalarBaseMult(i + 1).
tron_generateTable == [i \in 1 .. globalWorkSize |-> ScalarBaseMult(i)]

(* ---------------------------------------------------------------------- *)
(* The kernel: one lane's address                                          *)
(* ---------------------------------------------------------------------- *)

\* Keccak-256 of the 64-byte public key, bytes [12, 32): an injective mixing
\* of the affine coordinates into AddrBytes bytes.
Keccak20(x, y) ==
    LET h == ((x * FieldP + y) * 2731 + 77) % 65536
    IN  <<h \div 256, h % 256>>

\* One level of the up-sweep: every lane whose idx = (lid+1)*2*stride - 1 is
\* in range replaces prefix[idx] by prefix[idx - stride] * prefix[idx].
UpSweepLevel(prefix, stride, n) ==
    [i \in 0 .. (n - 1) |->
        IF \E lid \in 0 .. (n - 1) : (lid + 1) * (2 * stride) - 1 = i
        THEN mod_mul(prefix[i - stride], prefix[i])
        ELSE prefix[i]]

RECURSIVE UpSweep(_, _, _)
UpSweep(prefix, stride, n) ==
    IF stride < n THEN UpSweep(UpSweepLevel(prefix, stride, n), 2 * stride, n)
    ELSE prefix

\* One level of the down-sweep: the left cell takes the right value, the
\* right cell takes left * right.
DownSweepLevel(prefix, stride, n) ==
    [i \in 0 .. (n - 1) |->
        IF \E lid \in 0 .. (n - 1) : (lid + 1) * (2 * stride) - 1 = i
        THEN mod_mul(prefix[i - stride], prefix[i])
        ELSE IF \E lid \in 0 .. (n - 1) : (lid + 1) * (2 * stride) - 1 = i + stride
                                          /\ i + stride < n
        THEN prefix[i + stride]
        ELSE prefix[i]]

RECURSIVE DownSweep(_, _, _)
DownSweep(prefix, stride, n) ==
    IF stride >= 1 THEN DownSweep(DownSweepLevel(prefix, stride, n), stride \div 2, n)
    ELSE prefix

\* One level of the suffix scan: read own and neighbour, barrier, write.
SuffixLevel(suffix, stride, n) ==
    [i \in 0 .. (n - 1) |->
        IF i + stride < n THEN mod_mul(suffix[i], suffix[i + stride]) ELSE suffix[i]]

RECURSIVE SuffixScan(_, _, _)
SuffixScan(suffix, stride, n) ==
    IF stride < n THEN SuffixScan(SuffixLevel(suffix, stride, n), 2 * stride, n)
    ELSE suffix

\* The exclusive prefix product the kernel holds after the down-sweep.
ExclusivePrefix(Z, n) ==
    LET up == UpSweep(Z, 1, n)
    IN  DownSweep([up EXCEPT ![n - 1] = 1], n \div 2, n)

\* total_inv, written by lane 0 after the up-sweep.
TotalInv(Z, n) == mod_inv(UpSweep(Z, 1, n)[n - 1])

\* invZ of every lane of a workgroup whose Z values are Z[0 .. n-1].
BatchInvZ(Z, n) ==
    LET pref == ExclusivePrefix(Z, n)
        tinv == TotalInv(Z, n)
        suff == SuffixScan(Z, 1, n)
    IN  [lid \in 0 .. (n - 1) |->
            LET pt == mod_mul(pref[lid], tinv)
            IN  IF lid < n - 1 THEN mod_mul(pt, suff[lid + 1]) ELSE pt]

\* A kernel that reads the table one entry too far.
LaneSumNextEntry(base, table, gid) ==
    j_add_mixed(base, Entry(table, (gid + 1) % globalWorkSize))

\* The base point as the kernel loads it: X, Y, Z of the 96-byte upload.
\* The table point of lane gid is the gid-th entry.
LaneSum(base, table, gid) == j_add_mixed(base, Entry(table, gid))

\* Steps 1-7 of compute_address for lane gid: the affine point it hashes.
LaneAffine(base, table, gid) ==
    LET first == (gid \div localWorkSize) * localWorkSize
        lid   == gid % localWorkSize
        Z     == [l \in Lids |-> LaneSum(base, table, first + l)[3]]
        invZ  == BatchInvZ(Z, localWorkSize)[lid]
        res   == LaneSum(base, table, gid)
        z2    == mod_mul(invZ, invZ)
        z3    == mod_mul(z2, invZ)
    IN  <<mod_mul(res[1], z2), mod_mul(res[2], z3)>>

compute_address(base, table, gid) ==
    LET a == LaneAffine(base, table, gid) IN Keccak20(a[1], a[2])

(* ---------------------------------------------------------------------- *)
(* Host helpers: byte strings and hex strings                              *)
(* ---------------------------------------------------------------------- *)
\* A byte string is a sequence over 0..255, a hex string a sequence of
\* nibbles 0..15.

\* big.Int.Bytes: big-endian, no leading zero byte; zero is the empty slice.
RECURSIVE IntBytes(_)
IntBytes(v) == IF v = 0 THEN <<>> ELSE Append(IntBytes(v \div 256), v % 256)

\* big.Int.SetBytes.
RECURSIVE SetBytes(_)
SetBytes(b) ==
    IF b = <<>> THEN 0
    ELSE SetBytes(SubSeq(b, 1, Len(b) - 1)) * 256 + b[Len(b)]

\* pad32: left-pads with zeros to KeyLen bytes; a longer slice is returned
\* as it is.
pad32(b) ==
    IF Len(b) >= KeyLen THEN b
    ELSE [i \in 1 .. KeyLen |->
            IF i <= KeyLen - Len(b) THEN 0 ELSE b[i - (KeyLen - Len(b))]]

\* padHex: an odd-length hex string gets a "0" appended.
padHex(s) == IF Len(s) % 2 = 1 THEN Append(s, 0) ELSE s

\* A character of a pattern is its hex value, or NotHex for any character
\* outside 0-9, a-f, A-F.
NotHex == 16

\* hex.DecodeString on an even-length string: the bytes decoded before the
\* first pair with a character that is not a hex digit; the error is
\* dropped by the caller.
DecodeString(s) ==
    LET pairs == Len(s) \div 2
        bad   == {i \in 1 .. pairs : s[2 * i - 1] >= NotHex \/ s[2 * i] >= NotHex}
        n     == IF bad = {} THEN pairs
                 ELSE (CHOOSE i \in bad : \A j \in bad : i <= j) - 1
    IN  [i \in 1 .. n |-> 16 * s[2 * i - 1] + s[2 * i]]

\* hex.EncodeToString.
EncodeToString(b) ==
    [i \in 1 .. (2 * Len(b)) |->
        IF i % 2 = 1 THEN b[(i + 1) \div 2] \div 16 ELSE b[i \div 2] % 16]

\* The curve library takes a scalar of at most KeyLen bytes that is neither
\* zero nor at or above the group order; on any other scalar it yields no
\* point and the caller dereferences nil.
LibAccepts(k) == Len(IntBytes(k)) <= KeyLen /\ 0 < k /\ k < CurveN

\* crypto.ToECDSA: strict, the slice must have exactly KeyLen bytes and hold
\* a scalar in [1, CurveN - 1]; otherwise pk is nil.
ToECDSA(privBytes) ==
    Len(privBytes) = KeyLen /\ LibAccepts(SetBytes(privBytes))

\* crypto.PubkeyToAddress: Keccak of the public key of private key k.
PubkeyToAddress(k) ==
    LET q == ScalarBaseMult(k) IN Keccak20(q[1], q[2])

\* computeBasePointJacobian: base*G with Z = 1.
computeBasePointJacobian(base) ==
    LET q == ScalarBaseMult(base) IN <<q[1], q[2], 1>>

\* A host that forgets the lane.
ReconstructKeyNoGid(base, gid) == base

\* foundKey := baseInt + gid, an unbounded integer.
ReconstructKey(base, gid) == base + gid

(* ---------------------------------------------------------------------- *)
(* The Ethereum kernel's pattern match and publication                     *)
(* ---------------------------------------------------------------------- *)

\* The prefix_len bytes of the prefix are compared with the first bytes of
\* the address, the last one on its high nibble only when prefix_is_odd.
MatchPrefix(addr, a) ==
    \A i \in 1 .. a.prefixLen :
        IF i = a.prefixLen /\ a.prefixOdd
        THEN addr[i] \div 16 = a.prefix[i] \div 16
        ELSE addr[i] = a.prefix[i]

\* The suffix_len bytes of the suffix are compared with the last bytes of
\* the address, the first one on its low nibble only when suffix_is_odd.
MatchSuffix(addr, a) ==
    \A i \in 1 .. a.suffixLen :
        IF i = 1 /\ a.suffixOdd
        THEN addr[AddrBytes - a.suffixLen + i] % 16 = a.suffix[i] % 16
        ELSE addr[AddrBytes - a.suffixLen + i] = a.suffix[i]

KernelMatch(addr, a) == MatchPrefix(addr, a) /\ MatchSuffix(addr, a)

\* The addresses of all lanes of one dispatch.
LaneAddresses(base, table) ==
    [g \in Lanes |-> compute_address(base, table, g)]

\* The lanes whose address matches.
Matching(base, table, a) ==
    LET addrs == LaneAddresses(base, table)
    IN  {g \in Lanes : KernelMatch(addrs[g], a)}

(* ---------------------------------------------------------------------- *)
(* The Ethereum GPU generator and its caller                               *)
(* ---------------------------------------------------------------------- *)
\* One generator object, searched MaxSearches times by one caller.  The
\* caller starts a search only when the previous goroutine has ended.

VARIABLES
    tablesBin,    \* the file tables.bin: [present, data]
    searches,     \* calls of Start so far
    pc,           \* where the runGPU goroutine stands
    exit,         \* why the goroutine of this search ended
    gen,          \* g.prefixBytes, g.suffixBytes, g.prefixIsOdd, g.suffixIsOdd, g.attempts
    handles,      \* g.buf*: the search that created the handle, 0 for nil
    live,         \* device buffers created and not released: <<name, search>>
    kargs,        \* the kernel arguments set by createBuffers
    dev,          \* device memory: base, table, flag, gid, out
    baseInt,      \* runGPU's baseInt
    batches,      \* batches completed without a match in this search
    foundFlag,    \* runGPU's foundFlag
    cancelled,    \* ctx.Done() is closed
    resultChan,   \* the buffered channel Start returned
    received,     \* what the caller took from resultChan
    published,    \* history: the Result sent, with what the device reported
                  \* and the table the batch ran with
    cancelLog,    \* history: batches started and completed after cancel()
    dispatched,   \* history: the config of the search, the start key drawn
                  \* and the base points the kernel was given
    tableLog      \* history: tables generated by a search setup, whether one
                  \* was saved, tables generated after that

\* One dispatch of the Tron kernel, lane by lane.
VARIABLES
    kin,          \* the dispatch: base scalar, prefix and suffix patterns
    lpc,          \* where each lane stands
    lbar,         \* the barrier each lane has arrived at
    laddr,        \* each lane's private address[]
    kold,         \* each lane's `old`, the value atomic_xchg returned
    found_flag,   \* *found_flag
    output,       \* the output buffer: gid bytes and address bytes
    kwrote,       \* history: the lanes that wrote to output
    kgarbage      \* lanes that went on past a barrier a sibling never reached

hvars == <<tablesBin, searches, pc, exit, gen, handles, live, kargs, dev,
           baseInt, batches, foundFlag, cancelled, resultChan, received,
           published, cancelLog, dispatched, tableLog>>

\* The kernel applied as a function: one lane of one batch.
VARIABLES
    fin,          \* the base scalar and the lane
    fout          \* the address the kernel computed for it

\* The batch inversion of one workgroup, followed lane by lane
VARIABLES
    sZ,           \* Z of each lane after the mixed addition
    smem,         \* __local memory: Z_arr, prefix, suffix, total_inv
    sregs,        \* each lane's private values
    spc,          \* each lane's position in its program
    sacc,         \* history: accesses to each cell since the last barrier
    sunset        \* history: reads of a cell nobody had written

svars == <<sZ, smem, sregs, spc, sacc, sunset>>

\* The two pattern predicates applied to one address
VARIABLES
    mIn,          \* the address and the prefix and suffix asked for
    mOut          \* the verdict of the kernel's predicate and of the Matcher

mvars == <<mIn, mOut>>

\* Stats called from a goroutine of its own while the caller runs Start
VARIABLES
    gStartTime,   \* g.startTime, two of its words: <<wall, ext>>
    gAttempts,    \* g.attempts: its value and the Start whose store it follows
    startPc,      \* where the caller stands in Start
    startsDone,   \* calls of Start begun
    statsPc,      \* where the goroutine calling Stats stands
    statsRegs,    \* what Stats has read so far
    races         \* history: unordered conflicting accesses to g.startTime

tvars == <<gStartTime, gAttempts, startPc, startsDone, statsPc, statsRegs, races>>

\* One batch of the Tron backend and the Result made of it
VARIABLES
    rIn,          \* the start key, the table loaded and the patterns
    rOut          \* the Result the Tron host sent, with the lane reported

rvars == <<rIn, rOut>>

\* Two searches on one generator, the goroutine of the first still running
VARIABLES
    oHandles,     \* g.bufBasePoint, g.bufFlag: <<name, search>> or None
    oLive,        \* device buffers created and not released
    opc,          \* where the goroutine of each search stands
    oMade,        \* buffers each createBuffers has made so far
    oBatches,     \* batches each goroutine has run
    oCancelled,   \* the context of each search is cancelled
    oDelivered,   \* the caller has received the Result of each search
    misuse        \* history: a goroutine on a buffer of the other search,
                  \* or on a released one

ovars == <<oHandles, oLive, opc, oMade, oBatches, oCancelled, oDelivered, misuse>>

\* One CPU search with several workers
VARIABLES
    cpc,          \* where each worker stands
    cTries,       \* keys each worker has generated
    cChan,        \* resultChan, buffered with room for one Result
    cDone,        \* the done channel is closed
    cCtxDone,     \* ctx.Done() is closed
    cSent,        \* history: Results sent on resultChan
    cGot          \* what the consumer received

cvars == <<cpc, cTries, cChan, cDone, cCtxDone, cSent, cGot>>

\* One dispatch of an Ed25519 kernel (Solana, Aptos, Sui), lane by lane
VARIABLES
    eIn,          \* the kernel and the length of each matching lane's address
    epc,          \* where each lane stands
    eOut          \* the output buffer: out[0] and the seed bytes after it

evars == <<eIn, epc, eOut>>

\* A field routine of the kernel applied to values held in memory
VARIABLES
    qIn,          \* the routine, its operands and where they are held
    qOut          \* what the routine left: the result and what the fold did

qvars == <<qIn, qOut>>

\* The variables of the specifications that stand apart from the GPU search.
xvars == <<tvars, rvars, ovars, cvars, evars, qvars>>

\* Everything but them.
basevars == <<hvars, kin, lpc, lbar, laddr, kold, found_flag, output, kwrote,
              kgarbage, fin, fout, svars, mvars>>

\* What no step of Start, Stats and the counter of the search touches.
StatsFrame == UNCHANGED <<basevars, rvars, ovars, cvars, evars, qvars>>

\* What no step of a Tron batch and the Result made of it touches.
TronResultFrame == UNCHANGED <<basevars, tvars, ovars, cvars, evars, qvars>>

\* What no step of two searches on one generator touches.
OverlapFrame == UNCHANGED <<basevars, tvars, rvars, cvars, evars, qvars>>

\* What no step of a CPU search touches.
CpuFrame == UNCHANGED <<basevars, tvars, rvars, ovars, evars, qvars>>

\* What no step of a dispatch of an Ed25519 kernel touches.
EdFrame == UNCHANGED <<basevars, tvars, rvars, ovars, cvars, qvars>>

\* What no step of a field routine on 32-bit words touches.
FieldFrame == UNCHANGED <<basevars, tvars, rvars, ovars, cvars, evars>>

fvars == <<fin, fout, svars, mvars, xvars>>

kvars == <<kin, lpc, lbar, laddr, kold, found_flag, output, kwrote, kgarbage,
           fvars>>

vars == <<hvars, kvars>>

BufNames == <<"bufBasePoint", "bufTable", "bufOutput", "bufFlag",
              "bufFoundGid", "bufTargetPfx", "bufTargetSfx">>
BufSet == {BufNames[i] : i \in 1 .. Len(BufNames)}

None == <<>>

\* The patterns the caller asks for: hex strings of the prefix and suffix.
Configs ==
    { [prefix |-> <<0>>,       suffix |-> <<>>],
      [prefix |-> <<>>,        suffix |-> <<8>>],
      [prefix |-> <<1, 11>>,   suffix |-> <<>>],
      [prefix |-> <<0, 0, 4>>, suffix |-> <<13>>],
      [prefix |-> <<0, 0, 4>>, suffix |-> <<1, 3>>],
      [prefix |-> <<0, NotHex>>, suffix |-> <<>>] }

\* The values rand.Read may give baseInt.
BaseKeys == {1, 100, 219, 222, 253}

NoArgs == [prefix |-> <<>>, prefixLen |-> 0, suffix |-> <<>>, suffixLen |-> 0,
           prefixOdd |-> FALSE, suffixOdd |-> FALSE]

NoDev == [base |-> <<0, 0, 0>>, table |-> <<>>, flag |-> 0, gid |-> 0,
          out |-> <<0, 0>>]

HostInit ==
    /\ tablesBin = [present |-> FALSE, data |-> <<>>]
    /\ searches = 0
    /\ pc = "idle"
    /\ exit = "none"
    /\ gen = [prefixBytes |-> <<>>, suffixBytes |-> <<>>,
              prefixIsOdd |-> FALSE, suffixIsOdd |-> FALSE, attempts |-> 0]
    /\ handles = [n \in BufSet |-> 0]
    /\ live = {}
    /\ kargs = NoArgs
    /\ dev = NoDev
    /\ baseInt = 0
    /\ batches = 0
    /\ foundFlag = 0
    /\ cancelled = FALSE
    /\ resultChan = <<>>
    /\ received = None
    /\ published = None
    /\ cancelLog = [started |-> 0, completed |-> 0]
    /\ dispatched = [config |-> [prefix |-> <<>>, suffix |-> <<>>],
                     b0 |-> 0, bases |-> <<>>]
    /\ tableLog = [generated |-> 0, saved |-> FALSE, afterSave |-> 0]

\* No dispatch is being followed lane by lane.
LanesIdle ==
    /\ kin = [base |-> 0, prefix |-> <<>>, suffix |-> <<>>]
    /\ lpc = [g \in Lanes |-> "done"]
    /\ lbar = [g \in Lanes |-> 0]
    /\ laddr = [g \in Lanes |-> <<>>]
    /\ kold = [g \in Lanes |-> -1]
    /\ found_flag = 0
    /\ output = [gid |-> 0, address |-> <<>>]
    /\ kwrote = {}
    /\ kgarbage = {}

\* The scans are followed on a workgroup of four lanes, the smallest with
\* two levels in every scan.
WORKGROUP_SIZE == 4
ScanLids == 0 .. (WORKGROUP_SIZE - 1)

\* The cells of __local memory.
Cells ==
    ({"Z_arr", "prefix", "suffix"} \X ScanLids) \cup {<<"total_inv", 0>>}

\* A cell of __local memory nobody has written yet.
Unset == -1

NoRegs == [a |-> 0, b |-> 0, c |-> 0]

\* No workgroup is being followed through the batch inversion.
ScanIdle ==
    /\ sZ = [l \in ScanLids |-> 1]
    /\ smem = [c \in Cells |-> Unset]
    /\ sregs = [l \in ScanLids |-> NoRegs]
    /\ spc = [l \in ScanLids |-> 0]
    /\ sacc = [c \in Cells |-> {}]
    /\ sunset = {}

\* Nobody calls Stats.
StatsIdle ==
    /\ gStartTime = <<0, 0>>
    /\ gAttempts = [val |-> 0, epoch |-> 0]
    /\ startPc = "out"
    /\ startsDone = 0
    /\ statsPc = "out"
    /\ statsRegs = [attempts |-> 0, epoch |-> 0, wall |-> 0, ext |-> 0]
    /\ races = {}

\* The Tron backend runs no batch.
TronResultIdle ==
    /\ rIn = [base |-> 0, table |-> <<>>, prefix |-> <<>>, suffix |-> <<>>]
    /\ rOut = None

\* The buffers followed when two searches overlap: the first and a later
\* one of createBuffers.
OverlapBufs == <<"bufBasePoint", "bufFlag">>

OverlapSearches == {1, 2}

\* No search has been started.
OverlapIdle ==
    /\ oHandles = [n \in {"bufBasePoint", "bufFlag"} |-> None]
    /\ oLive = {}
    /\ opc = [k \in OverlapSearches |-> "none"]
    /\ oMade = [k \in OverlapSearches |-> 0]
    /\ oBatches = [k \in OverlapSearches |-> 0]
    /\ oCancelled = [k \in OverlapSearches |-> FALSE]
    /\ oDelivered = [k \in OverlapSearches |-> FALSE]
    /\ misuse = {}

\* The workers of a CPU search.
Workers == {1, 2}

\* No CPU search has been started.
CpuIdle ==
    /\ cpc = [w \in Workers |-> "none"]
    /\ cTries = [w \in Workers |-> 0]
    /\ cChan = <<>>
    /\ cDone = FALSE
    /\ cCtxDone = FALSE
    /\ cSent = <<>>
    /\ cGot = <<>>

\* The lanes of an Ed25519 dispatch and the bytes of a seed followed.
EdLanes == {0, 1, 2}
SeedLen == 2

\* No Ed25519 kernel runs.
EdIdle ==
    /\ eIn = [kernel |-> "none", length |-> <<>>]
    /\ epc = [g \in EdLanes |-> "done"]
    /\ eOut = [i \in 0 .. SeedLen |-> 0]

\* No field routine is being applied.
FieldIdle ==
    /\ qIn = [op |-> "none"]
    /\ qOut = None

\* The specifications that stand apart are at rest, but for those in S.
ExtraIdleExcept(S) ==
    /\ IF "stats" \in S THEN TRUE ELSE StatsIdle
    /\ IF "tron" \in S THEN TRUE ELSE TronResultIdle
    /\ IF "overlap" \in S THEN TRUE ELSE OverlapIdle
    /\ IF "cpu" \in S THEN TRUE ELSE CpuIdle
    /\ IF "ed" \in S THEN TRUE ELSE EdIdle
    /\ IF "field" \in S THEN TRUE ELSE FieldIdle

ExtraIdle == ExtraIdleExcept({})

\* No pattern predicate is being applied.
MatchIdle ==
    /\ mIn = [addr |-> <<>>, prefix |-> <<>>, suffix |-> <<>>]
    /\ mOut = None

\* The kernel is not being applied as a function.
FnIdle ==
    /\ fin = [base |-> 0, gid |-> 0]
    /\ fout = None
    /\ ScanIdle
    /\ MatchIdle
    /\ ExtraIdle

Init == HostInit /\ LanesIdle /\ FnIdle

\* Start's own padding of an odd-length suffix, had it been padHex's.
padSuffixAtEnd(s) == IF Len(s) % 2 = 1 THEN Append(s, 0) ELSE s

\* Start pads an odd-length suffix with a "0" in front, so that its first
\* nibble lands in the low half of the first byte.
padSuffix(s) == IF Len(s) % 2 = 1 THEN <<0>> \o s ELSE s

\* A Start without the reset: an empty field of the configuration leaves
\* what the search before it stored.
DecodePatternKeeps(config) ==
    [prefixBytes |-> IF config.prefix # <<>>
                     THEN DecodeString(padHex(config.prefix)) ELSE gen.prefixBytes,
     suffixBytes |-> IF config.suffix # <<>>
                     THEN DecodeString(padSuffix(config.suffix)) ELSE gen.suffixBytes,
     prefixIsOdd |-> IF config.prefix # <<>>
                     THEN Len(config.prefix) % 2 = 1 ELSE gen.prefixIsOdd,
     suffixIsOdd |-> IF config.suffix # <<>>
                     THEN Len(config.suffix) % 2 = 1 ELSE gen.suffixIsOdd]

\* What Start makes of config.Prefix and config.Suffix: the four fields are
\* reset first, then set from the fields of the configuration that are not
\* empty.
DecodePattern(config) ==
    [prefixBytes |-> IF config.prefix # <<>>
                     THEN DecodeString(padHex(config.prefix)) ELSE <<>>,
     suffixBytes |-> IF config.suffix # <<>>
                     THEN DecodeString(padSuffix(config.suffix)) ELSE <<>>,
     prefixIsOdd |-> config.prefix # <<>> /\ Len(config.prefix) % 2 = 1,
     suffixIsOdd |-> config.suffix # <<>> /\ Len(config.suffix) % 2 = 1]

\* Start: a fresh channel, attempts reset, the pattern decoded, the
\* goroutine launched.  The caller passes a fresh context.
Start(config) ==
    /\ pc \in {"idle", "done"}
    /\ searches < MaxSearches
    /\ UNCHANGED kvars
    /\ UNCHANGED tableLog
    /\ searches' = searches + 1
    /\ resultChan' = <<>>
    /\ gen' = LET d == DecodePattern(config)
               IN  [prefixBytes |-> d.prefixBytes, suffixBytes |-> d.suffixBytes,
                    prefixIsOdd |-> d.prefixIsOdd, suffixIsOdd |-> d.suffixIsOdd,
                    attempts |-> 0]
    /\ pc' = "create"
    /\ exit' = "none"
    /\ cancelled' = FALSE
    /\ received' = None
    /\ published' = None
    /\ cancelLog' = [started |-> 0, completed |-> 0]
    /\ batches' = 0
    /\ foundFlag' = 0
    /\ dispatched' = [config |-> config, b0 |-> 0, bases |-> <<>>]
    /\ UNCHANGED <<tablesBin, handles, live, kargs, dev, baseInt>>

\* copy(make([]byte, 20), b): b followed by zeros.
PatternData(b) == [i \in 1 .. AddrBytes |-> IF i <= Len(b) THEN b[i] ELSE 0]

\* A loadTable that takes the file whatever its size.
loadTableAnySize(readError) ==
    IF ~tablesBin.present
    THEN [err |-> FALSE, data |-> GenerateTable, generated |-> TRUE]
    ELSE IF readError THEN [err |-> TRUE, data |-> <<>>, generated |-> FALSE]
    ELSE [err |-> FALSE, data |-> tablesBin.data, generated |-> FALSE]

\* A loadTable that generates the table whether the file is there or not.
loadTableRegenerates(readError) ==
    [err |-> FALSE, data |-> GenerateTable, generated |-> TRUE]

\* loadTable: the file if it is there and has tableSize bytes, a generated
\* table if it is missing, an error otherwise.
loadTable(readError) ==
    IF ~tablesBin.present
    THEN [err |-> FALSE, data |-> GenerateTable, generated |-> TRUE]
    ELSE IF readError THEN [err |-> TRUE, data |-> <<>>, generated |-> FALSE]
    ELSE IF Len(tablesBin.data) # globalWorkSize
    THEN [err |-> TRUE, data |-> <<>>, generated |-> FALSE]
    ELSE [err |-> FALSE, data |-> tablesBin.data, generated |-> FALSE]

\* The handles after createBuffers got as far as creating the first
\* `made` buffers; a failed clCreateBuffer stores nil in its field.
HandlesAfter(made, failedAt) ==
    [n \in BufSet |->
        IF \E i \in 1 .. made : BufNames[i] = n THEN searches
        ELSE IF failedAt > 0 /\ BufNames[failedAt] = n THEN 0
        ELSE handles[n]]

Created(made) == {<<BufNames[i], searches>> : i \in 1 .. made}

\* releaseBuffers: every field that is not nil is released.
releaseBuffers(h, l) == l \ {<<n, h[n]>> : n \in BufSet}

\* A return of runGPU after `defer g.releaseBuffers()` was registered: the
\* buffers are released, their contents and the goroutine's locals are gone.
Return(reason) ==
    /\ pc' = "done"
    /\ exit' = reason
    /\ live' = releaseBuffers(handles, live)
    /\ dev' = NoDev
    /\ baseInt' = 0
    /\ foundFlag' = 0

\* A nil dereference in the goroutine: the deferred release runs, then the
\* process dies.
Panic ==
    /\ pc' = "crashed"
    /\ exit' = "panic"
    /\ live' = releaseBuffers(handles, live)
    /\ dev' = NoDev
    /\ baseInt' = 0
    /\ foundFlag' = 0

\* What loadTable leaves in tables.bin: GenerateTable saves what it made
\* unless the write fails, which is only a warning.
FileAfterLoad(saveFails) ==
    IF ~tablesBin.present /\ ~saveFails
    THEN [present |-> TRUE, data |-> GenerateTable]
    ELSE tablesBin

\* The log after a loadTable that returned t.
LogAfterLoad(t, saveFails) ==
    IF t.generated
    THEN [generated |-> tableLog.generated + 1,
          saved     |-> tableLog.saved \/ ~saveFails,
          afterSave |-> tableLog.afterSave + (IF tableLog.saved THEN 1 ELSE 0)]
    ELSE tableLog

\* runGPU, createBuffers returning an error: the clCreateBuffer call number
\* failAt fails (its field becomes nil), or, with failAt = 0, loadTable
\* does.  runGPU logs and returns; the release is not yet deferred.
CreateBuffersFails(failAt, readError, saveFails) ==
    /\ pc = "create"
    /\ UNCHANGED kvars
    /\ UNCHANGED dispatched
    /\ LET t == loadTable(readError)
           made == IF failAt = 0 THEN 1 ELSE failAt - 1
       IN  /\ IF failAt = 0 THEN t.err ELSE failAt >= 2 => ~t.err
           /\ readError => failAt = 0
           /\ saveFails => failAt >= 2 /\ ~tablesBin.present
           /\ tablesBin' = IF failAt >= 2 THEN FileAfterLoad(saveFails) ELSE tablesBin
           /\ tableLog' = IF failAt >= 2 THEN LogAfterLoad(t, saveFails) ELSE tableLog
           /\ handles' = HandlesAfter(made, failAt)
           /\ live' = live \cup Created(made)
    /\ pc' = "done"
    /\ exit' = "buffer_error"
    /\ UNCHANGED <<searches, gen, kargs, dev, baseInt, batches, foundFlag,
                   cancelled, resultChan, received, published, cancelLog>>

\* The pattern descriptor createBuffers hands to the kernel: the two
\* 20-byte buffers, the byte counts and the odd flags.
PatternArgs(g) ==
    [prefix    |-> PatternData(g.prefixBytes),
     prefixLen |-> Len(g.prefixBytes),
     suffix    |-> PatternData(g.suffixBytes),
     suffixLen |-> Len(g.suffixBytes),
     prefixOdd |-> g.prefixIsOdd,
     suffixOdd |-> g.suffixIsOdd]

\* runGPU up to the loop: createBuffers succeeds (seven buffers, the table
\* uploaded, the eleven kernel arguments set), the release is deferred and
\* the start key drawn.  The fresh flag and gid buffers hold junk.
CreateBuffers(saveFails, b0, junk) ==
    /\ pc = "create"
    /\ UNCHANGED kvars
    /\ LET t == loadTable(FALSE)
       IN  /\ ~t.err
           /\ saveFails => ~tablesBin.present
           /\ tablesBin' = FileAfterLoad(saveFails)
           /\ tableLog' = LogAfterLoad(t, saveFails)
           /\ dev' = [base |-> <<0, 0, 0>>, table |-> t.data,
                      flag |-> junk[1], gid |-> junk[2], out |-> <<0, 0>>]
    /\ handles' = HandlesAfter(Len(BufNames), 0)
    /\ live' = live \cup Created(Len(BufNames))
    /\ kargs' = PatternArgs(gen)
    /\ baseInt' = b0
    /\ dispatched' = [dispatched EXCEPT !.b0 = b0]
    /\ pc' = "select"
    /\ UNCHANGED <<searches, exit, gen, batches, foundFlag, cancelled,
                   resultChan, received, published, cancelLog>>

\* select: ctx.Done() is ready, the goroutine returns.
CtxDone ==
    /\ pc = "select"
    /\ UNCHANGED kvars
    /\ UNCHANGED tableLog
    /\ UNCHANGED dispatched
    /\ cancelled
    /\ Return("cancelled")
    /\ UNCHANGED <<tablesBin, searches, gen, handles, kargs, batches,
                   cancelled, resultChan, received, published, cancelLog>>

\* A loop that goes on to the next batch without looking at ctx.Done().
ResetFlagsNoPoll(r) ==
    /\ pc = "select"
    /\ UNCHANGED kvars
    /\ UNCHANGED tableLog
    /\ UNCHANGED dispatched
    /\ batches < MaxBatches
    /\ cancelLog' = [cancelLog EXCEPT !.started = @ + (IF cancelled THEN 1 ELSE 0)]
    /\ IF r = "ok"
       THEN /\ dev' = [dev EXCEPT !.flag = 0, !.gid = 0]
            /\ pc' = "upload"
            /\ UNCHANGED <<exit, live, baseInt, foundFlag>>
       ELSE Return("dispatch_error")
    /\ UNCHANGED <<tablesBin, searches, gen, handles, kargs, batches,
                   cancelled, resultChan, received, published>>

\* select default, step 1: two blocking writes of zero.
ResetFlags(r) ==
    /\ pc = "select"
    /\ UNCHANGED kvars
    /\ UNCHANGED tableLog
    /\ UNCHANGED dispatched
    /\ ~cancelled
    /\ batches < MaxBatches
    /\ cancelLog' = [cancelLog EXCEPT !.started = @ + (IF cancelled THEN 1 ELSE 0)]
    /\ IF r = "ok"
       THEN /\ dev' = [dev EXCEPT !.flag = 0, !.gid = 0]
            /\ pc' = "upload"
            /\ UNCHANGED <<exit, live, baseInt, foundFlag>>
       ELSE Return("dispatch_error")
    /\ UNCHANGED <<tablesBin, searches, gen, handles, kargs, batches,
                   cancelled, resultChan, received, published>>

\* Steps 2 and 3: base*G on the CPU, then the blocking 96-byte write.
UploadBasePoint(ok) ==
    /\ pc = "upload"
    /\ UNCHANGED kvars
    /\ UNCHANGED tableLog
    /\ UNCHANGED dispatched
    /\ IF ~LibAccepts(baseInt)
       THEN Panic
       ELSE IF ok
       THEN /\ dev' = [dev EXCEPT !.base = computeBasePointJacobian(baseInt)]
            /\ pc' = "enqueue"
            /\ UNCHANGED <<exit, live, baseInt, foundFlag>>
       ELSE Return("dispatch_error")
    /\ UNCHANGED <<tablesBin, searches, gen, handles, kargs, batches,
                   cancelled, resultChan, received, published, cancelLog>>

\* Step 4: the dispatch.  Of the lanes that match, the one whose
\* compare-and-swap finds the flag at 0 writes found_gid and the address.
EnqueueKernel(ok) ==
    /\ pc = "enqueue"
    /\ UNCHANGED kvars
    /\ UNCHANGED tableLog
    /\ IF ok
       THEN /\ LET addrs == LaneAddresses(dev.base, dev.table)
                   m == {g \in Lanes : KernelMatch(addrs[g], kargs)}
               IN  IF m = {} \/ dev.flag # 0
                   THEN UNCHANGED dev
                   ELSE \E w \in m :
                          dev' = [dev EXCEPT
                                    !.flag = 1, !.gid = w, !.out = addrs[w]]
            /\ pc' = "readflag"
            /\ dispatched' = [dispatched EXCEPT !.bases = Append(@, dev.base)]
            /\ UNCHANGED <<exit, live, baseInt, foundFlag>>
       ELSE Return("dispatch_error") /\ UNCHANGED dispatched
    /\ UNCHANGED <<tablesBin, searches, gen, handles, kargs, batches,
                   cancelled, resultChan, received, published, cancelLog>>

\* Step 7 with the key range of the next batch overlapping the last one.
NextBaseOverlaps(b) == b + globalWorkSize - 1

\* Step 7: baseInt.Add(baseInt, batchSizeInt).
NextBase(b) == b + globalWorkSize

\* Step 7 counting batches instead of keys.
AddAttemptsOne(a) == a + 1

\* Step 7: atomic.AddUint64(&g.attempts, uint64(globalWorkSize)).
AddAttempts(a) == a + globalWorkSize

\* Steps 5 and 7: the blocking read of the flag; without a match the
\* counter and the base key advance.
ReadFlag(ok) ==
    /\ pc = "readflag"
    /\ UNCHANGED kvars
    /\ UNCHANGED tableLog
    /\ UNCHANGED dispatched
    /\ IF ok
       THEN /\ foundFlag' = dev.flag
            /\ cancelLog' = [cancelLog EXCEPT
                               !.completed = @ + (IF cancelled THEN 1 ELSE 0)]
            /\ IF dev.flag # 0
               THEN /\ pc' = "found"
                    /\ UNCHANGED <<gen, baseInt, batches>>
               ELSE /\ pc' = "select"
                    /\ gen' = [gen EXCEPT !.attempts = AddAttempts(@)]
                    /\ baseInt' = NextBase(baseInt)
                    /\ batches' = batches + 1
            /\ UNCHANGED <<exit, live, dev>>
       ELSE /\ Return("dispatch_error")
            /\ UNCHANGED <<cancelLog, gen, batches>>
    /\ UNCHANGED <<tablesBin, searches, handles, kargs, cancelled,
                   resultChan, received, published>>

\* Step 6: read gid and address, rebuild the key, derive the address on the
\* CPU and send the Result.
ReadResult(r) ==
    /\ pc = "found"
    /\ UNCHANGED kvars
    /\ UNCHANGED tableLog
    /\ UNCHANGED dispatched
    /\ IF r # "ok"
       THEN /\ Return("dispatch_error")
            /\ UNCHANGED <<resultChan, published>>
       ELSE LET foundGid   == dev.gid
                hostOutput == dev.out
                foundKey   == ReconstructKey(baseInt, foundGid)
                privBytes  == pad32(IntBytes(foundKey))
            IN  IF ~ToECDSA(privBytes)
                THEN Panic /\ UNCHANGED <<resultChan, published>>
                ELSE LET res == [Address |-> EncodeToString(
                                                PubkeyToAddress(SetBytes(privBytes))),
                                 PrivateKey |-> EncodeToString(privBytes)]
                     IN  /\ resultChan' = Append(resultChan, res)
                         /\ published' = [result |-> res,
                                          hostOutput |-> hostOutput,
                                          foundGid |-> foundGid,
                                          base |-> baseInt,
                                          table |-> dev.table]
                         /\ Return("published")
    /\ UNCHANGED <<tablesBin, searches, gen, handles, kargs, batches,
                   cancelled, received, cancelLog>>

\* The caller cancels the context of the running search; a cancel after the
\* goroutine has ended changes nothing.
Cancel ==
    /\ pc \notin {"idle", "done", "crashed"}
    /\ UNCHANGED kvars
    /\ UNCHANGED tableLog
    /\ UNCHANGED dispatched
    /\ ~cancelled
    /\ cancelled' = TRUE
    /\ UNCHANGED <<tablesBin, searches, pc, exit, gen, handles, live, kargs,
                   dev, baseInt, batches, foundFlag, resultChan, received,
                   published, cancelLog>>

\* The caller's select takes the Result from the channel.
Receive ==
    /\ pc # "crashed"
    /\ UNCHANGED kvars
    /\ UNCHANGED tableLog
    /\ UNCHANGED dispatched
    /\ resultChan # <<>>
    /\ received' = Head(resultChan)
    /\ resultChan' = Tail(resultChan)
    /\ UNCHANGED <<tablesBin, searches, pc, exit, gen, handles, live, kargs,
                   dev, baseInt, batches, foundFlag, cancelled, published,
                   cancelLog>>

\* cmd/gen_tables run between searches: the file is created, then written
\* entry by entry; a failed write leaves the entries written so far.
GenTablesMain(n) ==
    /\ pc \in {"idle", "done"}
    /\ UNCHANGED kvars
    /\ UNCHANGED tableLog
    /\ UNCHANGED dispatched
    /\ tablesBin' = [present |-> TRUE, data |-> SubSeq(gen_tables_main, 1, n)]
    /\ UNCHANGED <<searches, pc, exit, gen, handles, live, kargs, dev, baseInt,
                   batches, foundFlag, cancelled, resultChan, received,
                   published, cancelLog>>

\* The Tron generator's loadTable run between searches in the same
\* directory: a missing file is generated and saved.
TronLoadTable ==
    /\ pc \in {"idle", "done"}
    /\ UNCHANGED kvars
    /\ UNCHANGED dispatched
    /\ ~tablesBin.present
    /\ tablesBin' = [present |-> TRUE, data |-> tron_generateTable]
    /\ tableLog' = [tableLog EXCEPT !.generated = @ + 1, !.saved = TRUE]
    /\ UNCHANGED <<searches, pc, exit, gen, handles, live, kargs, dev, baseInt,
                   batches, foundFlag, cancelled, resultChan, received,
                   published, cancelLog>>

\* Where createBuffers is made to fail: in loadTable (0), at the first
\* clCreateBuffer, at the one of the table, at the last one.
FailPoints == {0, 1, 2, Len(BufNames)}

\* The steps of the runGPU goroutine.
RunGPU ==
    \/ \E failAt \in FailPoints, readError \in BOOLEAN,
          saveFails \in BOOLEAN :
            CreateBuffersFails(failAt, readError, saveFails)
    \/ \E saveFails \in BOOLEAN, b0 \in BaseKeys,
          junk \in {<<0, 0>>, <<1, globalWorkSize - 1>>} :
            CreateBuffers(saveFails, b0, junk)
    \/ CtxDone
    \/ \E r \in {"ok", "flag_failed", "gid_failed"} : ResetFlags(r)
    \/ \E ok \in BOOLEAN : UploadBasePoint(ok)
    \/ \E ok \in BOOLEAN : EnqueueKernel(ok)
    \/ \E ok \in BOOLEAN : ReadFlag(ok)
    \/ \E r \in {"ok", "gid_failed", "out_failed"} : ReadResult(r)

Next ==
    \/ \E config \in Configs : Start(config)
    \/ RunGPU
    \/ Cancel
    \/ Receive
    \/ \E n \in {globalWorkSize - 1, globalWorkSize} : GenTablesMain(n)
    \/ TronLoadTable

Spec == Init /\ [][Next]_vars

\* The scheduler runs the goroutine whenever it can take a step.
FairSpec == Spec /\ WF_vars(RunGPU)

(* ---------------------------------------------------------------------- *)
(* The Tron kernel, lane by lane                                           *)
(* ---------------------------------------------------------------------- *)

\* The first bytes of sha256(sha256(data)): a mixing of the payload into the
\* checksum (one byte here, four in the code).
Checksum(data) == (data[1] * 31 + data[2] * 17 + data[3] * 7 + 99) % 256

RECURSIVE Base58Digits(_)
Base58Digits(v) == IF v = 0 THEN <<>> ELSE Append(Base58Digits(v \div 58), v % 58)

\* base58_encode_25: repeated division by 58, digits reversed, one leading
\* digit 0 per leading zero byte.  A character is its index in the alphabet.
base58_encode_25(input) ==
    LET zeros == Cardinality({i \in 1 .. Len(input) :
                                \A j \in 1 .. i : input[j] = 0})
    IN  [i \in 1 .. zeros |-> 0] \o Base58Digits(SetBytes(input))

\* Steps 7 to 9: 0x41, the Keccak bytes, the checksum, Base58.
TronAddress(h) ==
    LET addr_data == <<65>> \o h
    IN  base58_encode_25(Append(addr_data, Checksum(addr_data)))

\* Step 10 with contains_len = 0: the prefix is compared after the first
\* character, the suffix at the end.
tron_match(address, prefix, suffix) ==
    /\ \A i \in 0 .. (Len(prefix) - 1) : address[1 + i + 1] = prefix[i + 1]
    /\ \A i \in 0 .. (Len(suffix) - 1) :
          address[Len(address) - Len(suffix) + i + 1] = suffix[i + 1]

\* A kernel in which every matching lane writes.
WinsAlways(old) == TRUE

\* if(old == 0): the lane that found the flag at 0 writes.
Wins(old) == old = 0

RECURSIVE Log2(_)
Log2(n) == IF n <= 1 THEN 0 ELSE 1 + Log2(n \div 2)

\* The barriers a lane meets: one after the store of Z, one per up-sweep
\* level, one after total_inv, one per down-sweep level, one after the copy
\* into suffix_prod, two per suffix level and a last one.
NumBarriers == 4 + 4 * Log2(localWorkSize)

Group(g) == {h \in Lanes : h \div localWorkSize = g \div localWorkSize}

AfterBarriers == {"match", "xchg", "writeGid", "writeAddr", "done"}

\* The dispatches followed: a start key and the patterns of the search.
KernelInputs ==
    { [base |-> 100, prefix |-> <<39>>,     suffix |-> <<>>],
      [base |-> 100, prefix |-> <<38>>,     suffix |-> <<>>],
      [base |-> 100, prefix |-> <<>>,       suffix |-> <<1>>],
      [base |-> 1,   prefix |-> <<38, 21>>, suffix |-> <<>>],
      [base |-> 34,  prefix |-> <<>>,       suffix |-> <<55>>] }

\* What a lane may find in address[] when it computed from local memory a
\* sibling never wrote.
GarbageAddresses == {TronAddress(<<0, 0>>), TronAddress(<<255, 255>>)}

\* What the first four bytes of the output buffer may hold: clCreateBuffer
\* is given no host pointer and the host never writes to the buffer.
UninitialisedGid == {0, globalWorkSize - 1}

\* The host has reset found_flag and enqueued the kernel; the table is the
\* one the Tron generator makes.
TronKernelInit ==
    /\ HostInit
    /\ kin \in KernelInputs
    /\ lpc = [g \in Lanes |-> "start"]
    /\ lbar = [g \in Lanes |-> 0]
    /\ laddr = [g \in Lanes |-> <<>>]
    /\ kold = [g \in Lanes |-> -1]
    /\ found_flag = 0
    /\ output \in {[gid |-> j, address |-> <<>>] : j \in UninitialisedGid}
    /\ kwrote = {}
    /\ kgarbage = {}
    /\ FnIdle

\* if(*found_flag != 0) return; otherwise steps 1 to 4 up to the first
\* barrier.
CheckFlag(g) ==
    /\ lpc[g] = "start"
    /\ IF found_flag # 0
       THEN lpc' = [lpc EXCEPT ![g] = "exited"] /\ UNCHANGED lbar
       ELSE lpc' = [lpc EXCEPT ![g] = "barrier"] /\ lbar' = [lbar EXCEPT ![g] = 1]
    /\ UNCHANGED <<hvars, fvars, kin, laddr, kold, found_flag, output, kwrote, kgarbage>>

\* A lane leaves a barrier once every lane of its workgroup has arrived at
\* it, and runs to the next barrier or to the end of step 9.
PassBarrier(g) ==
    /\ lpc[g] = "barrier"
    /\ \A h \in Group(g) :
          \/ lpc[h] = "barrier" /\ lbar[h] >= lbar[g]
          \/ lpc[h] \in AfterBarriers
    /\ IF lbar[g] < NumBarriers
       THEN lbar' = [lbar EXCEPT ![g] = @ + 1] /\ UNCHANGED lpc
       ELSE lpc' = [lpc EXCEPT ![g] = "match"] /\ UNCHANGED lbar
    /\ UNCHANGED <<hvars, fvars, kin, laddr, kold, found_flag, output, kwrote, kgarbage>>

\* A barrier that a lane of the workgroup will never reach is undefined
\* behaviour: the lanes waiting at it may hang for ever, or the device may
\* let them go on with whatever the local arrays hold.
PassBarrierDiverged(g) ==
    /\ lpc[g] = "barrier"
    /\ \E h \in Group(g) : lpc[h] = "exited"
    /\ \A h \in Group(g) :
          \/ lpc[h] = "exited"
          \/ lpc[h] = "barrier" /\ lbar[h] >= lbar[g]
          \/ lpc[h] \in AfterBarriers
    /\ kgarbage' = kgarbage \cup {g}
    /\ IF lbar[g] < NumBarriers
       THEN lbar' = [lbar EXCEPT ![g] = @ + 1] /\ UNCHANGED lpc
       ELSE lpc' = [lpc EXCEPT ![g] = "match"] /\ UNCHANGED lbar
    /\ UNCHANGED <<hvars, fvars, kin, laddr, kold, found_flag, output, kwrote>>

\* Steps 5 to 10: the lane's address and the pattern match.
Match(g) ==
    /\ lpc[g] = "match"
    /\ \E a \in IF g \in kgarbage THEN GarbageAddresses
                ELSE {TronAddress(compute_address(computeBasePointJacobian(kin.base),
                                                  tron_generateTable, g))} :
          /\ laddr' = [laddr EXCEPT ![g] = a]
          /\ lpc' = [lpc EXCEPT ![g] =
                        IF tron_match(a, kin.prefix, kin.suffix) THEN "xchg" ELSE "done"]
    /\ UNCHANGED <<hvars, fvars, kin, lbar, kold, found_flag, output, kwrote, kgarbage>>

\* uint old = atomic_xchg(found_flag, 1); if(old == 0) { ... }
Xchg(g) ==
    /\ lpc[g] = "xchg"
    /\ kold' = [kold EXCEPT ![g] = found_flag]
    /\ found_flag' = 1
    /\ lpc' = [lpc EXCEPT ![g] = IF Wins(found_flag) THEN "writeGid" ELSE "done"]
    /\ UNCHANGED <<hvars, fvars, kin, lbar, laddr, output, kwrote, kgarbage>>

\* output[0..3] = gid.
WriteGid(g) ==
    /\ lpc[g] = "writeGid"
    /\ output' = [output EXCEPT !.gid = g]
    /\ kwrote' = kwrote \cup {g}
    /\ lpc' = [lpc EXCEPT ![g] = "writeAddr"]
    /\ UNCHANGED <<hvars, fvars, kin, lbar, laddr, kold, found_flag, kgarbage>>

\* output[4 + i] = address[i], then the terminating zero.
WriteAddr(g) ==
    /\ lpc[g] = "writeAddr"
    /\ output' = [output EXCEPT !.address = laddr[g]]
    /\ kwrote' = kwrote \cup {g}
    /\ lpc' = [lpc EXCEPT ![g] = "done"]
    /\ UNCHANGED <<hvars, fvars, kin, lbar, laddr, kold, found_flag, kgarbage>>

TronKernelNext ==
    \E g \in Lanes :
        \/ CheckFlag(g)
        \/ PassBarrier(g)
        \/ PassBarrierDiverged(g)
        \/ Match(g)
        \/ Xchg(g)
        \/ WriteGid(g)
        \/ WriteAddr(g)

TronKernelSpec == TronKernelInit /\ [][TronKernelNext]_vars

\* The dispatch is over: the host's blocking read returns.
DispatchOver == \A g \in Lanes : lpc[g] \in {"done", "exited"}

(* ---------------------------------------------------------------------- *)
(* The kernel as a function of the base scalar and the lane                *)
(* ---------------------------------------------------------------------- *)

\* Any scalar of KeyLen bytes and any lane; the table is the one
\* GenerateTable makes.
KernelFnInit ==
    /\ HostInit
    /\ LanesIdle
    /\ fin \in [base : 0 .. (ScalarMod - 1), gid : Lanes]
    /\ fout = None
    /\ ScanIdle
    /\ MatchIdle
    /\ ExtraIdle

\* The host uploads base*G when the library accepts the scalar, and the
\* kernel computes the lane's address.
ComputeAddress ==
    /\ fout = None
    /\ LibAccepts(fin.base)
    /\ fout' = compute_address(computeBasePointJacobian(fin.base),
                               GenerateTable, fin.gid)
    /\ UNCHANGED <<hvars, kin, lpc, lbar, laddr, kold, found_flag, output,
                   kwrote, kgarbage, mvars, xvars, fin, svars>>

KernelFnNext == ComputeAddress

KernelFnSpec == KernelFnInit /\ [][KernelFnNext]_vars

(* ---------------------------------------------------------------------- *)
(* The batch inversion, one access to __local memory at a time             *)
(* ---------------------------------------------------------------------- *)
\* A lane's program is the sequence of its accesses to __local memory and
\* of its barriers.  A read copies a cell into a private value, a write
\* stores a value computed from the private values.

Rd(c, r) == [op |-> "r", cell |-> c, reg |-> r, val |-> "-"]
Wr(c, v) == [op |-> "w", cell |-> c, reg |-> "-", val |-> v]
Bar == [op |-> "bar", cell |-> <<"-", 0>>, reg |-> "-", val |-> "-"]

\* Step 4: Z_arr[lid] = prefix[lid] = result.z; barrier.
StoreZSteps(lid) ==
    <<Wr(<<"Z_arr", lid>>, "z"), Wr(<<"prefix", lid>>, "z"), Bar>>

\* The up-sweep loop from `stride` on, a barrier closing every level.
RECURSIVE UpSweepSteps(_, _)
UpSweepSteps(lid, stride) ==
    IF stride < WORKGROUP_SIZE
    THEN LET idx == (lid + 1) * (2 * stride) - 1
         IN  (IF idx < WORKGROUP_SIZE
              THEN <<Rd(<<"prefix", idx - stride>>, "a"),
                     Rd(<<"prefix", idx>>, "b"),
                     Wr(<<"prefix", idx>>, "ab")>>
              ELSE <<>>)
             \o <<Bar>> \o UpSweepSteps(lid, 2 * stride)
    ELSE <<>>

\* Lane 0 inverts the total and puts the identity in the last cell; barrier.
SingleInversionSteps(lid) ==
    (IF lid = 0
     THEN <<Rd(<<"prefix", WORKGROUP_SIZE - 1>>, "a"),
            Wr(<<"total_inv", 0>>, "inv_a"),
            Wr(<<"prefix", WORKGROUP_SIZE - 1>>, "one")>>
     ELSE <<>>)
    \o <<Bar>>

\* A down-sweep that leaves the left cell as it was.
RECURSIVE DownSweepStepsNoSwap(_, _)
DownSweepStepsNoSwap(lid, stride) ==
    IF stride >= 1
    THEN LET idx == (lid + 1) * (2 * stride) - 1
         IN  (IF idx < WORKGROUP_SIZE
              THEN <<Rd(<<"prefix", idx - stride>>, "a"),
                     Rd(<<"prefix", idx>>, "b"),
                     Wr(<<"prefix", idx>>, "ab")>>
              ELSE <<>>)
             \o <<Bar>> \o DownSweepStepsNoSwap(lid, stride \div 2)
    ELSE <<>>

\* The down-sweep loop from `stride` on.
RECURSIVE DownSweepSteps(_, _)
DownSweepSteps(lid, stride) ==
    IF stride >= 1
    THEN LET idx == (lid + 1) * (2 * stride) - 1
         IN  (IF idx < WORKGROUP_SIZE
              THEN <<Rd(<<"prefix", idx - stride>>, "a"),
                     Rd(<<"prefix", idx>>, "b"),
                     Wr(<<"prefix", idx - stride>>, "b"),
                     Wr(<<"prefix", idx>>, "ab")>>
              ELSE <<>>)
             \o <<Bar>> \o DownSweepSteps(lid, stride \div 2)
    ELSE <<>>

\* suffix[lid] = Z_arr[lid]; barrier.
SuffixInitSteps(lid) ==
    <<Rd(<<"Z_arr", lid>>, "a"), Wr(<<"suffix", lid>>, "a"), Bar>>

\* A suffix loop that writes its cell right after reading the neighbour's.
RECURSIVE SuffixStepsOneBarrier(_, _)
SuffixStepsOneBarrier(lid, stride) ==
    IF stride < WORKGROUP_SIZE
    THEN (IF lid + stride < WORKGROUP_SIZE
          THEN <<Rd(<<"suffix", lid>>, "a"), Rd(<<"suffix", lid + stride>>, "b"),
                 Wr(<<"suffix", lid>>, "ab"), Bar>>
          ELSE <<Rd(<<"suffix", lid>>, "a"), Wr(<<"suffix", lid>>, "a"), Bar>>)
         \o SuffixStepsOneBarrier(lid, 2 * stride)
    ELSE <<>>

\* The suffix loop from `stride` on: read, barrier, write, barrier.
RECURSIVE SuffixSteps(_, _)
SuffixSteps(lid, stride) ==
    IF stride < WORKGROUP_SIZE
    THEN (IF lid + stride < WORKGROUP_SIZE
          THEN <<Rd(<<"suffix", lid>>, "a"), Rd(<<"suffix", lid + stride>>, "b"),
                 Bar, Wr(<<"suffix", lid>>, "ab"), Bar>>
          ELSE <<Rd(<<"suffix", lid>>, "a"), Bar, Wr(<<"suffix", lid>>, "a"), Bar>>)
         \o SuffixSteps(lid, 2 * stride)
    ELSE <<>>

\* A lookup of the lane's own suffix cell.
SuffixIndexOwn(lid) == lid

\* The cell of the suffix product of the lanes after lid.
SuffixIndex(lid) == lid + 1

\* The barrier after the loop, then pref_val, tinv and, except for the
\* last lane, suff_val.
FinalSteps(lid) ==
    <<Bar, Rd(<<"prefix", lid>>, "a"), Rd(<<"total_inv", 0>>, "b")>>
    \o (IF lid < WORKGROUP_SIZE - 1
        THEN <<Rd(<<"suffix", SuffixIndex(lid)>>, "c")>> ELSE <<>>)

Program(lid) ==
    StoreZSteps(lid) \o UpSweepSteps(lid, 1) \o SingleInversionSteps(lid)
    \o DownSweepSteps(lid, WORKGROUP_SIZE \div 2) \o SuffixInitSteps(lid)
    \o SuffixSteps(lid, 1) \o FinalSteps(lid)

\* The lane's position past the barrier that closes the down-sweep.
PastDownSweep(lid) ==
    Len(StoreZSteps(lid) \o UpSweepSteps(lid, 1) \o SingleInversionSteps(lid)
        \o DownSweepSteps(lid, WORKGROUP_SIZE \div 2))

\* The lane's next step, if it has one.
ScanAt(lid) == Program(lid)[spc[lid] + 1]
ScanDone(lid) == spc[lid] = Len(Program(lid))

\* The value a write stores.
ScanVal(lid, v) ==
    LET r == sregs[lid]
    IN  CASE v = "z"     -> sZ[lid]
          [] v = "a"     -> r.a
          [] v = "b"     -> r.b
          [] v = "ab"    -> mod_mul(r.a, r.b)
          [] v = "inv_a" -> mod_inv(r.a)
          [] v = "one"   -> 1

\* invZ = pref_val * tinv, times suff_val except in the last lane.
ScanInvZ(lid) ==
    LET pt == mod_mul(sregs[lid].a, sregs[lid].b)
    IN  IF lid < WORKGROUP_SIZE - 1 THEN mod_mul(pt, sregs[lid].c) ELSE pt

\* The Z values followed: non-zero field elements.
ScanInputs == [ScanLids -> {2, 3, 228}]

BatchInvInit ==
    /\ HostInit
    /\ LanesIdle
    /\ fin = [base |-> 0, gid |-> 0]
    /\ fout = None
    /\ MatchIdle
    /\ ExtraIdle
    /\ sZ \in ScanInputs
    /\ smem = [c \in Cells |-> Unset]
    /\ sregs = [l \in ScanLids |-> NoRegs]
    /\ spc = [l \in ScanLids |-> 0]
    /\ sacc = [c \in Cells |-> {}]
    /\ sunset = {}

\* A lane copies a cell of __local memory into a private value.
ScanRead(lid) ==
    /\ ~ScanDone(lid)
    /\ ScanAt(lid).op = "r"
    /\ LET st == ScanAt(lid)
           v  == smem[st.cell]
       IN  /\ sregs' = [sregs EXCEPT ![lid][st.reg] = IF v = Unset THEN 0 ELSE v]
           /\ sunset' = IF v = Unset THEN sunset \cup {<<lid, st.cell>>} ELSE sunset
           /\ sacc' = [sacc EXCEPT ![st.cell] = @ \cup {<<lid, "r">>}]
    /\ spc' = [spc EXCEPT ![lid] = @ + 1]
    /\ UNCHANGED <<hvars, kin, lpc, lbar, laddr, kold, found_flag, output,
                   kwrote, kgarbage, mvars, xvars, fin, fout, sZ, smem>>

\* A lane stores a value in a cell of __local memory.
ScanWrite(lid) ==
    /\ ~ScanDone(lid)
    /\ ScanAt(lid).op = "w"
    /\ LET st == ScanAt(lid)
       IN  /\ smem' = [smem EXCEPT ![st.cell] = ScanVal(lid, st.val)]
           /\ sacc' = [sacc EXCEPT ![st.cell] = @ \cup {<<lid, "w">>}]
    /\ spc' = [spc EXCEPT ![lid] = @ + 1]
    /\ UNCHANGED <<hvars, kin, lpc, lbar, laddr, kold, found_flag, output,
                   kwrote, kgarbage, mvars, xvars, fin, fout, sZ, sregs, sunset>>

\* barrier(CLK_LOCAL_MEM_FENCE): every lane of the workgroup has arrived;
\* what was written before it is visible after it.
ScanBarrier ==
    /\ \A l \in ScanLids : ~ScanDone(l) /\ ScanAt(l).op = "bar"
    /\ spc' = [l \in ScanLids |-> spc[l] + 1]
    /\ sacc' = [c \in Cells |-> {}]
    /\ UNCHANGED <<hvars, kin, lpc, lbar, laddr, kold, found_flag, output,
                   kwrote, kgarbage, mvars, xvars, fin, fout, sZ, smem, sregs, sunset>>

BatchInvNext ==
    \/ \E lid \in ScanLids : ScanRead(lid)
    \/ \E lid \in ScanLids : ScanWrite(lid)
    \/ ScanBarrier

BatchInvSpec == BatchInvInit /\ [][BatchInvNext]_vars

(* ---------------------------------------------------------------------- *)
(* The two pattern predicates, applied to one address                      *)
(* ---------------------------------------------------------------------- *)

\* hexEncode: two lowercase hex characters for each byte.
hexEncode(src) ==
    [i \in 1 .. (2 * Len(src)) |->
        IF i % 2 = 1 THEN src[(i + 1) \div 2] \div 16 ELSE src[i \div 2] % 16]

\* NewMatcher: prefix and suffix in lower case (a character is its hex
\* value here, so the case is gone already); an empty one is not a
\* criterion.
NewMatcher(prefix, suffix) ==
    [prefixBytes |-> prefix, suffixBytes |-> suffix,
     hasPrefix |-> prefix # <<>>, hasSuffix |-> suffix # <<>>]

\* Matcher.Matches: the address as 2 * AddrBytes hex characters, the
\* leading ones compared with the prefix, the trailing ones with the suffix.
Matches(m, addressBytes) ==
    IF ~m.hasPrefix /\ ~m.hasSuffix THEN TRUE
    ELSE LET hexBuf == hexEncode(addressBytes)
             start  == 2 * AddrBytes - Len(m.suffixBytes)
         IN  /\ m.hasPrefix =>
                    /\ Len(m.prefixBytes) <= 2 * AddrBytes
                    /\ \A i \in 1 .. Len(m.prefixBytes) : hexBuf[i] = m.prefixBytes[i]
             /\ m.hasSuffix =>
                    /\ Len(m.suffixBytes) <= 2 * AddrBytes
                    /\ \A i \in 1 .. Len(m.suffixBytes) :
                           hexBuf[start + i] = m.suffixBytes[i]

\* The hex digits patterns and addresses are made of.
Nibbles == {0, 1, 11}

\* The strings of at most n digits.
HexStrings(n) == UNION {[1 .. k -> Nibbles] : k \in 0 .. n}

\* Every address made of these digits, with every prefix and suffix of
\* hex digits that together are no longer than the address.
MatchInputs ==
    {[addr |-> [i \in 1 .. AddrBytes |-> 16 * a[2 * i - 1] + a[2 * i]],
      prefix |-> p, suffix |-> x] :
        a \in [1 .. (2 * AddrBytes) -> Nibbles],
        <<p, x>> \in {px \in HexStrings(2 * AddrBytes) \X HexStrings(2 * AddrBytes) :
                        Len(px[1]) + Len(px[2]) <= 2 * AddrBytes}}

MatchInit ==
    /\ HostInit
    /\ LanesIdle
    /\ fin = [base |-> 0, gid |-> 0]
    /\ fout = None
    /\ ScanIdle
    /\ mIn \in MatchInputs
    /\ mOut = None
    /\ ExtraIdle

\* The address is judged twice: by the kernel's comparison under the
\* descriptor the host derives from the pattern, and by the Matcher.
ApplyMatch ==
    /\ mOut = None
    /\ mOut' = [kernel |-> KernelMatch(mIn.addr, PatternArgs(DecodePattern(mIn))),
                hex    |-> Matches(NewMatcher(mIn.prefix, mIn.suffix), mIn.addr)]
    /\ UNCHANGED <<hvars, kin, lpc, lbar, laddr, kold, found_flag, output,
                   kwrote, kgarbage, fin, fout, svars, mIn, xvars>>

MatchNext == ApplyMatch

MatchSpec == MatchInit /\ [][MatchNext]_vars

(* ---------------------------------------------------------------------- *)
(* Stats, called while the caller runs Start                               *)
(* ---------------------------------------------------------------------- *)
\* One goroutine calls Start MaxSearches times, the goroutine of the search
\* adds to g.attempts, another goroutine calls Stats.  time.Time is a struct
\* of several words; g.startTime = time.Now() stores them one after another
\* and time.Since(g.startTime) loads them one after another.  The k-th
\* Start stores the time k in both words.  An atomic load that sees the
\* store of the k-th Start, or an add that follows it, is ordered after
\* everything that Start did before the store.

\* Batches counted in one search.
MaxStatsBatches == 2

\* Start, first word of g.startTime = time.Now().
StartWriteWall ==
    /\ StatsFrame
    /\ startPc = "out"
    /\ startsDone < MaxSearches
    /\ startsDone' = startsDone + 1
    /\ gStartTime' = <<startsDone + 1, gStartTime[2]>>
    /\ races' = IF statsPc # "out"
                THEN races \cup {[word |-> "wall", write |-> startsDone + 1,
                                  read |-> statsPc]}
                ELSE races
    /\ startPc' = "wall"
    /\ UNCHANGED <<gAttempts, statsPc, statsRegs>>

\* Start, second word of g.startTime = time.Now().
StartWriteExt ==
    /\ StatsFrame
    /\ startPc = "wall"
    /\ gStartTime' = <<gStartTime[1], startsDone>>
    /\ races' = IF statsPc # "out"
                THEN races \cup {[word |-> "ext", write |-> startsDone,
                                  read |-> statsPc]}
                ELSE races
    /\ startPc' = "ext"
    /\ UNCHANGED <<gAttempts, startsDone, statsPc, statsRegs>>

\* Start: atomic.StoreUint64(&g.attempts, 0), then the goroutine is launched
\* and Start returns.
StartStoreAttempts ==
    /\ StatsFrame
    /\ startPc = "ext"
    /\ gAttempts' = [val |-> 0, epoch |-> startsDone]
    /\ startPc' = "out"
    /\ UNCHANGED <<gStartTime, startsDone, statsPc, statsRegs, races>>

\* runGPU: atomic.AddUint64(&g.attempts, batchSize) after a batch without
\* a match.
AddBatch ==
    /\ StatsFrame
    /\ gAttempts.epoch > 0
    /\ gAttempts.val < MaxStatsBatches * globalWorkSize
    /\ gAttempts' = [gAttempts EXCEPT !.val = AddAttempts(@)]
    /\ UNCHANGED <<gStartTime, startPc, startsDone, statsPc, statsRegs, races>>

\* Stats: attempts := atomic.LoadUint64(&g.attempts).
StatsLoadAttempts ==
    /\ StatsFrame
    /\ statsPc = "out"
    /\ statsRegs' = [attempts |-> gAttempts.val, epoch |-> gAttempts.epoch,
                     wall |-> 0, ext |-> 0]
    /\ statsPc' = "loaded"
    /\ UNCHANGED <<gStartTime, gAttempts, startPc, startsDone, races>>

\* Stats: time.Since(g.startTime), first word.  The read is unordered with
\* the write it sees when the atomic load did not see that Start's store.
StatsReadWall ==
    /\ StatsFrame
    /\ statsPc = "loaded"
    /\ statsRegs' = [statsRegs EXCEPT !.wall = gStartTime[1]]
    /\ races' = IF statsRegs.epoch < gStartTime[1]
                THEN races \cup {[word |-> "wall", write |-> gStartTime[1],
                                  read |-> "loaded"]}
                ELSE races
    /\ statsPc' = "wall"
    /\ UNCHANGED <<gStartTime, gAttempts, startPc, startsDone>>

\* Stats: time.Since(g.startTime), second word.
StatsReadExt ==
    /\ StatsFrame
    /\ statsPc = "wall"
    /\ statsRegs' = [statsRegs EXCEPT !.ext = gStartTime[2]]
    /\ races' = IF statsRegs.epoch < gStartTime[2]
                THEN races \cup {[word |-> "ext", write |-> gStartTime[2],
                                  read |-> "wall"]}
                ELSE races
    /\ statsPc' = "ext"
    /\ UNCHANGED <<gStartTime, gAttempts, startPc, startsDone>>

\* Stats returns.
StatsReturn ==
    /\ StatsFrame
    /\ statsPc = "ext"
    /\ statsPc' = "out"
    /\ UNCHANGED <<gStartTime, gAttempts, startPc, startsDone, statsRegs, races>>

StatsInit ==
    /\ HostInit
    /\ LanesIdle
    /\ fin = [base |-> 0, gid |-> 0]
    /\ fout = None
    /\ ScanIdle
    /\ MatchIdle
    /\ ExtraIdleExcept({"stats"})
    /\ StatsIdle

StatsNext ==
    \/ StartWriteWall
    \/ StartWriteExt
    \/ StartStoreAttempts
    \/ AddBatch
    \/ StatsLoadAttempts
    \/ StatsReadWall
    \/ StatsReadExt
    \/ StatsReturn

StatsSpec == StatsInit /\ [][StatsNext]_vars

(* ---------------------------------------------------------------------- *)
(* One batch of the Tron backend and the Result made of it                 *)
(* ---------------------------------------------------------------------- *)
\* TronGPUGenerator.loadTable takes any tables.bin of the right size: the
\* one its own generateTable wrote or the one the Ethereum backend wrote.

\* tron.DeriveAddress on the public key of private key k.
TronCpuAddress(k) == TronAddress(PubkeyToAddress(k))

\* privKey := baseInt + foundGid.
TronReconstructKey(base, gid) == base + gid

\* The characters a pattern may ask for, in the alphabet of base58.
TronPatternChars == {1, 9, 21, 38, 39, 55}

TronResultInputs ==
    {[base |-> b, table |-> t, prefix |-> p, suffix |-> x] :
        b \in {1, 34, 100, 150, 217},
        t \in {tron_generateTable, GenerateTable},
        p \in {<<>>} \cup {<<c>> : c \in TronPatternChars},
        x \in {<<>>} \cup {<<c>> : c \in TronPatternChars}}

TronResultInit ==
    /\ HostInit
    /\ LanesIdle
    /\ fin = [base |-> 0, gid |-> 0]
    /\ fout = None
    /\ ScanIdle
    /\ MatchIdle
    /\ ExtraIdleExcept({"tron"})
    /\ rIn \in TronResultInputs
    /\ rOut = None

\* The address each lane of the batch computes.
TronLaneAddresses ==
    [g \in Lanes |->
        TronAddress(compute_address(computeBasePointJacobian(rIn.base),
                                    rIn.table, g))]

\* Steps 1 to 6 of runGPU for one batch: the kernel runs, one of the lanes
\* that match wins the flag and writes its gid and its address string; the
\* host reads them, rebuilds the key and sends the Result.
TronBatch ==
    /\ TronResultFrame
    /\ rOut = None
    /\ LibAccepts(rIn.base)
    /\ LET addrs == TronLaneAddresses
           m == {g \in Lanes : tron_match(addrs[g], rIn.prefix, rIn.suffix)}
       IN  IF m = {}
           THEN rOut' = [found |-> FALSE, foundGid |-> 0, Address |-> <<>>,
                         PrivateKey |-> <<>>]
           ELSE \E w \in m :
                  rOut' = [found |-> TRUE, foundGid |-> w, Address |-> addrs[w],
                           PrivateKey |-> EncodeToString(pad32(IntBytes(
                                              TronReconstructKey(rIn.base, w))))]
    /\ UNCHANGED rIn

TronResultNext == TronBatch

TronResultSpec == TronResultInit /\ [][TronResultNext]_vars

(* ---------------------------------------------------------------------- *)
(* Start called again while the goroutine of the last search still runs    *)
(* ---------------------------------------------------------------------- *)
\* The buffer handles are fields of the generator; every goroutine reads
\* them and writes them there.  The caller starts the second search once it
\* has cancelled the first or has received its Result; nothing makes it wait
\* for the goroutine of the first to end.

OverlapInit ==
    /\ HostInit
    /\ LanesIdle
    /\ fin = [base |-> 0, gid |-> 0]
    /\ fout = None
    /\ ScanIdle
    /\ MatchIdle
    /\ ExtraIdleExcept({"overlap"})
    /\ OverlapIdle

\* Start: go g.runGPU(ctx, resultChan, config).
OverlapStart(k) ==
    /\ OverlapFrame
    /\ opc[k] = "none"
    /\ k = 1 \/ (opc[1] # "none" /\ (oCancelled[1] \/ oDelivered[1]))
    /\ opc' = [opc EXCEPT ![k] = "create"]
    /\ UNCHANGED <<oHandles, oLive, oMade, oBatches, oCancelled, oDelivered, misuse>>

\* createBuffers: g.buf... = clCreateBuffer(...), one buffer at a time; the
\* release is deferred once all are made.
OverlapCreate(k) ==
    /\ OverlapFrame
    /\ opc[k] = "create"
    /\ LET n == OverlapBufs[oMade[k] + 1]
       IN  /\ oHandles' = [oHandles EXCEPT ![n] = <<n, k>>]
           /\ oLive' = oLive \cup {<<n, k>>}
    /\ oMade' = [oMade EXCEPT ![k] = @ + 1]
    /\ opc' = [opc EXCEPT ![k] = IF oMade[k] + 1 = Len(OverlapBufs) THEN "select" ELSE "create"]
    /\ UNCHANGED <<oBatches, oCancelled, oDelivered, misuse>>

\* What a device operation of search k on the handles in the fields does
\* wrong: the buffer is another search's, or it has been released.
Misused(k, what) ==
    {[by |-> k, what |-> what, buf |-> oHandles[n]] :
        n \in {m \in DOMAIN oHandles :
                 oHandles[m] # None /\ oHandles[m][2] # k}}
    \cup
    {[by |-> k, what |-> "released", buf |-> oHandles[n]] :
        n \in {m \in DOMAIN oHandles :
                 oHandles[m] # None /\ oHandles[m] \notin oLive}}

\* select: ctx.Done() is closed and the goroutine returns, or a batch runs:
\* the writes of the flag and of the base point, the kernel, the read of the
\* flag, all on the handles the fields hold now.
OverlapBatch(k, found) ==
    /\ OverlapFrame
    /\ opc[k] = "select"
    /\ ~oCancelled[k]
    /\ oBatches[k] < MaxBatches
    /\ misuse' = misuse \cup Misused(k, "dispatch")
    /\ oBatches' = [oBatches EXCEPT ![k] = @ + 1]
    /\ opc' = [opc EXCEPT ![k] = IF found THEN "send" ELSE "select"]
    /\ UNCHANGED <<oHandles, oLive, oMade, oCancelled, oDelivered>>

\* case <-ctx.Done(): return.
OverlapCtxDone(k) ==
    /\ OverlapFrame
    /\ opc[k] = "select"
    /\ oCancelled[k]
    /\ opc' = [opc EXCEPT ![k] = "release"]
    /\ UNCHANGED <<oHandles, oLive, oMade, oBatches, oCancelled, oDelivered, misuse>>

\* resultChan <- Result; return.  The channel has room for it.
OverlapSend(k) ==
    /\ OverlapFrame
    /\ opc[k] = "send"
    /\ opc' = [opc EXCEPT ![k] = "sent"]
    /\ UNCHANGED <<oHandles, oLive, oMade, oBatches, oCancelled, oDelivered, misuse>>

\* The caller takes the Result from the channel.
OverlapReceive(k) ==
    /\ OverlapFrame
    /\ opc[k] \in {"sent", "released"}
    /\ oBatches[k] > 0 /\ ~oDelivered[k]
    /\ \/ opc[k] = "sent"
       \/ opc[k] = "released" /\ ~oCancelled[k]
    /\ oDelivered' = [oDelivered EXCEPT ![k] = TRUE]
    /\ UNCHANGED <<oHandles, oLive, opc, oMade, oBatches, oCancelled, misuse>>

\* The deferred releaseBuffers: every handle in the fields that is not nil
\* is released; the fields keep their values.
OverlapRelease(k) ==
    /\ OverlapFrame
    /\ opc[k] \in {"sent", "release"}
    /\ misuse' = misuse \cup Misused(k, "release")
    /\ oLive' = oLive \ {oHandles[n] : n \in DOMAIN oHandles}
    /\ opc' = [opc EXCEPT ![k] = "released"]
    /\ UNCHANGED <<oHandles, oMade, oBatches, oCancelled, oDelivered>>

\* The caller cancels the context of a search.
OverlapCancel(k) ==
    /\ OverlapFrame
    /\ opc[k] # "none"
    /\ ~oCancelled[k]
    /\ oCancelled' = [oCancelled EXCEPT ![k] = TRUE]
    /\ UNCHANGED <<oHandles, oLive, opc, oMade, oBatches, oDelivered, misuse>>

OverlapNext ==
    \E k \in OverlapSearches :
        \/ OverlapStart(k)
        \/ OverlapCreate(k)
        \/ \E found \in BOOLEAN : OverlapBatch(k, found)
        \/ OverlapCtxDone(k)
        \/ OverlapSend(k)
        \/ OverlapReceive(k)
        \/ OverlapRelease(k)
        \/ OverlapCancel(k)

OverlapSpec == OverlapInit /\ [][OverlapNext]_vars

(* ---------------------------------------------------------------------- *)
(* The CPU search: workers, the done channel and the consumer              *)
(* ---------------------------------------------------------------------- *)

\* Keys a worker generates at most.
MaxTries == 2

\* CPUGenerator.Start has made resultChan and done and launched the workers.
CpuInit ==
    /\ HostInit
    /\ LanesIdle
    /\ fin = [base |-> 0, gid |-> 0]
    /\ fout = None
    /\ ScanIdle
    /\ MatchIdle
    /\ ExtraIdleExcept({"cpu"})
    /\ cpc = [w \in Workers |-> "select"]
    /\ cTries = [w \in Workers |-> 0]
    /\ cChan = <<>>
    /\ cDone = FALSE
    /\ cCtxDone = FALSE
    /\ cSent = <<>>
    /\ cGot = <<>>

\* The outer select: return when ctx.Done() or done is closed, else the
\* default case.
CpuSelect(w) ==
    /\ CpuFrame
    /\ cpc[w] = "select"
    /\ cpc' = [cpc EXCEPT ![w] = IF cCtxDone \/ cDone THEN "exit" ELSE "work"]
    /\ UNCHANGED <<cTries, cChan, cDone, cCtxDone, cSent, cGot>>

\* The default case: a key is generated, counted, and its address matched.
CpuGenerate(w, match) ==
    /\ CpuFrame
    /\ cpc[w] = "work"
    /\ cTries[w] < MaxTries
    /\ cTries' = [cTries EXCEPT ![w] = @ + 1]
    /\ cpc' = [cpc EXCEPT ![w] = IF match THEN "matched" ELSE "select"]
    /\ UNCHANGED <<cChan, cDone, cCtxDone, cSent, cGot>>

\* select { case resultChan <- result: ... default: }: the send happens
\* when the buffer has room.
Sends(ch) == Len(ch) < 1

\* The inner select of a worker that matched.
CpuTrySend(w) ==
    /\ CpuFrame
    /\ cpc[w] = "matched"
    /\ IF Sends(cChan)
       THEN /\ cChan' = Append(cChan, [worker |-> w, try |-> cTries[w]])
            /\ cSent' = Append(cSent, [worker |-> w, try |-> cTries[w]])
            /\ cpc' = [cpc EXCEPT ![w] = "close"]
       ELSE /\ cpc' = [cpc EXCEPT ![w] = "exit"]
            /\ UNCHANGED <<cChan, cSent>>
    /\ UNCHANGED <<cTries, cDone, cCtxDone, cGot>>

\* closeOnce.Do(func() { close(done) }); return.
CpuCloseOnce(w) ==
    /\ CpuFrame
    /\ cpc[w] = "close"
    /\ cDone' = TRUE
    /\ cpc' = [cpc EXCEPT ![w] = "exit"]
    /\ UNCHANGED <<cTries, cChan, cCtxDone, cSent, cGot>>

\* The consumer: case result := <-resultChan, once in a search.
CpuReceive ==
    /\ CpuFrame
    /\ cChan # <<>>
    /\ cGot = <<>>
    /\ cGot' = <<Head(cChan)>>
    /\ cChan' = Tail(cChan)
    /\ UNCHANGED <<cpc, cTries, cDone, cCtxDone, cSent>>

\* The consumer cancels the context: after the Result, or on a signal.
CpuCancel ==
    /\ CpuFrame
    /\ ~cCtxDone
    /\ cCtxDone' = TRUE
    /\ UNCHANGED <<cpc, cTries, cChan, cDone, cSent, cGot>>

CpuNext ==
    \/ \E w \in Workers :
          \/ CpuSelect(w)
          \/ \E match \in BOOLEAN : CpuGenerate(w, match)
          \/ CpuTrySend(w)
          \/ CpuCloseOnce(w)
    \/ CpuReceive
    \/ CpuCancel

CpuSpec == CpuInit /\ [][CpuNext]_vars

(* ---------------------------------------------------------------------- *)
(* The Ed25519 kernels: the write of a match into the output buffer        *)
(* ---------------------------------------------------------------------- *)
\* Every lane that matches runs
\*     if (out[0] == 0) { out[0] = length; out[1 ..] = key_base; }
\* and the Solana kernel after it
\*     if (length < out[0]) { out[0] = length; out[1 ..] = key_base; }
\* with plain loads and stores of global memory, one byte at a time.

\* key_base of lane g: the seed of the batch plus the lane's number.
key_base(g) == [j \in 1 .. SeedLen |-> 10 * j + g]

\* The length a kernel writes into out[0]: 64 in the Aptos and Sui kernels,
\* the length of the Base58 string in the Solana kernel.  0 marks a lane
\* that does not match.
EdInputs ==
    {[kernel |-> "aptos", length |-> l] : l \in [EdLanes -> {0, 64}]}
    \cup
    {[kernel |-> "solana", length |-> l] : l \in [EdLanes -> {0, 43, 44}]}

\* The host has cleared the output buffer and enqueued the kernel.
EdInit ==
    /\ HostInit
    /\ LanesIdle
    /\ fin = [base |-> 0, gid |-> 0]
    /\ fout = None
    /\ ScanIdle
    /\ MatchIdle
    /\ ExtraIdleExcept({"ed"})
    /\ eIn \in EdInputs
    /\ epc = [g \in EdLanes |-> "match"]
    /\ eOut = [i \in 0 .. SeedLen |-> 0]

\* if (match): a lane that does not match is done.
EdMatch(g) ==
    /\ EdFrame
    /\ epc[g] = "match"
    /\ epc' = [epc EXCEPT ![g] = IF eIn.length[g] # 0 THEN <<"test", 1>> ELSE "done"]
    /\ UNCHANGED <<eIn, eOut>>

\* What follows block b: the second test in the Solana kernel, the end
\* elsewhere.
AfterBlock(b) == IF b = 1 /\ eIn.kernel = "solana" THEN <<"test", 2>> ELSE "done"

\* if (out[0] == 0), and in the Solana kernel if (length < out[0]).
EdTest(g) ==
    /\ EdFrame
    /\ epc[g] \in {<<"test", 1>>, <<"test", 2>>}
    /\ LET b    == epc[g][2]
           pass == IF b = 1 THEN eOut[0] = 0 ELSE eIn.length[g] < eOut[0]
       IN  epc' = [epc EXCEPT ![g] = IF pass THEN <<"write", b, 0>> ELSE AfterBlock(b)]
    /\ UNCHANGED <<eIn, eOut>>

\* out[0] = length, then out[j + 1] = key_base[j], a byte at each step.
EdWrite(g) ==
    /\ EdFrame
    /\ Len(epc[g]) = 3
    /\ LET b == epc[g][2]
           i == epc[g][3]
       IN  /\ eOut' = [eOut EXCEPT ![i] = IF i = 0 THEN eIn.length[g] ELSE key_base(g)[i]]
           /\ epc' = [epc EXCEPT ![g] = IF i = SeedLen THEN AfterBlock(b)
                                        ELSE <<"write", b, i + 1>>]
    /\ UNCHANGED eIn

EdNext ==
    \E g \in EdLanes :
        \/ EdMatch(g)
        \/ EdTest(g)
        \/ EdWrite(g)

EdSpec == EdInit /\ [][EdNext]_vars

\* The dispatch is over and the host reads the output buffer.
EdDispatchOver == \A g \in EdLanes : epc[g] = "done"

(* ---------------------------------------------------------------------- *)
(* The field routines on words: add_c, sub_b, gte, mod_add, mod_sub,       *)
(* mod_mul                                                                 *)
(* ---------------------------------------------------------------------- *)
\* The kernel holds a field element in 8 words of 32 bits and
\* p = 2^256 - 2^32 - 977.  The routines are followed on 2 words of 4 bits:
\* FieldP = 16^2 - 16 - 11, a prime of the same shape, with 11 in the place
\* of 977 and 8-bit arithmetic in the place of ulong.
Limbs == 2
WordBase == 16
ULong == WordBase * WordBase
FoldC == 11
FoldIterations == 6

Words == 0 .. (Limbs - 1)

\* A value as its words, least significant first, and back.
RECURSIVE Pow(_, _)
Pow(b, e) == IF e = 0 THEN 1 ELSE b * Pow(b, e - 1)

ToWords(v) == [i \in Words |-> (v \div Pow(WordBase, i)) % WordBase]

RECURSIVE WordsValueFrom(_, _, _)
WordsValueFrom(w, i, n) ==
    IF i = n THEN 0 ELSE w[i] + WordBase * WordsValueFrom(w, i + 1, n)

WordsValue(w) == WordsValueFrom(w, 0, Limbs)

\* P_CONST.
P_CONST == ToWords(FieldP)

\* add_c(r, a, b) on the memory mem: word i of a and of b is read, then word
\* i of r is written; returns the memory and the carry.
RECURSIVE add_c_from(_, _, _, _, _, _)
add_c_from(mem, r, a, b, i, c) ==
    IF i = Limbs THEN [mem |-> mem, ret |-> c % WordBase]
    ELSE LET s == (mem[a][i] + mem[b][i] + c) % ULong
         IN  add_c_from([mem EXCEPT ![r][i] = s % WordBase], r, a, b, i + 1,
                        s \div WordBase)

add_c(mem, r, a, b) == add_c_from(mem, r, a, b, 0, 0)

\* sub_b(r, a, b): the same order of reads and writes; returns the borrow.
RECURSIVE sub_b_from(_, _, _, _, _, _)
sub_b_from(mem, r, a, b, i, br) ==
    IF i = Limbs THEN [mem |-> mem, ret |-> br]
    ELSE LET d == mem[a][i] - mem[b][i] - br
         IN  sub_b_from([mem EXCEPT ![r][i] = d % WordBase], r, a, b, i + 1,
                        IF d < 0 THEN 1 ELSE 0)

sub_b(mem, r, a, b) == sub_b_from(mem, r, a, b, 0, 0)

\* gte(a, b): the words compared from the most significant down.
RECURSIVE gte_from(_, _, _)
gte_from(x, y, i) ==
    IF i < 0 THEN TRUE
    ELSE IF x[i] > y[i] THEN TRUE
    ELSE IF x[i] < y[i] THEN FALSE
    ELSE gte_from(x, y, i - 1)

gte(mem, a, b) == gte_from(mem[a], mem[b], Limbs - 1)

\* mod_add(r, a, b): P is a private copy of P_CONST.
mod_add_words(mem, r, a, b) ==
    LET m0 == [mem EXCEPT !["add.P"] = P_CONST]
        s  == add_c(m0, r, a, b)
    IN  IF s.ret # 0 \/ gte(s.mem, r, "add.P")
        THEN sub_b(s.mem, r, r, "add.P").mem
        ELSE s.mem

\* mod_sub(r, a, b).
mod_sub_words(mem, r, a, b) ==
    LET m0 == [mem EXCEPT !["sub.P"] = P_CONST]
        d  == sub_b(m0, r, a, b)
    IN  IF d.ret # 0 THEN add_c(d.mem, r, r, "sub.P").mem ELSE d.mem

\* mod_mul, the product: u[i+j] and the carry of the schoolbook loops.
RECURSIVE MulInner(_, _, _, _, _, _)
MulInner(u, ai, b, i, j, carry) ==
    IF j = Limbs THEN [u EXCEPT ![i + Limbs] = carry]
    ELSE LET prod == (ai * b[j] + u[i + j] + carry) % ULong
         IN  MulInner([u EXCEPT ![i + j] = prod % WordBase], ai, b, i, j + 1,
                      prod \div WordBase)

RECURSIVE MulOuter(_, _, _, _)
MulOuter(u, a, b, i) ==
    IF i = Limbs THEN u ELSE MulOuter(MulInner(u, a[i], b, i, 0, 0), a, b, i + 1)

\* for (k = 8; k < 16; k++) if (u[k] != 0) high_zero = 0.
HighZero(u) == \A k \in Limbs .. (2 * Limbs - 1) : u[k] = 0

\* The loop that adds high * 977 into the low words.
RECURSIVE FoldMul(_, _, _, _)
FoldMul(u, high, k, carry_mul) ==
    IF k = Limbs
    THEN [u EXCEPT ![Limbs] = (@ + (carry_mul % WordBase)) % ULong]
    ELSE LET term == (high[k] * FoldC + u[k] + carry_mul) % ULong
         IN  FoldMul([u EXCEPT ![k] = term % WordBase], high, k + 1,
                     term \div WordBase)

\* while (carry_shift > 0 && idx < 16).
RECURSIVE FoldCarry(_, _, _)
FoldCarry(u, idx, carry_shift) ==
    IF carry_shift > 0 /\ idx < 2 * Limbs
    THEN LET term == (u[idx] + carry_shift) % ULong
         IN  FoldCarry([u EXCEPT ![idx] = term % WordBase], idx + 1,
                       term \div WordBase)
    ELSE u

\* The loop that adds high one word up, then the carry further up.
RECURSIVE FoldShift(_, _, _, _)
FoldShift(u, high, k, carry_shift) ==
    IF k = Limbs THEN FoldCarry(u, Limbs + 1, carry_shift)
    ELSE LET term == (high[k] + u[k + 1] + carry_shift) % ULong
         IN  FoldShift([u EXCEPT ![k + 1] = term % WordBase], high, k + 1,
                       term \div WordBase)

\* One iteration of the fold: the high words are taken out, multiplied by
\* 2^32 + 977 and added.
FoldOnce(u) ==
    LET high    == [k \in Words |-> u[k + Limbs] % WordBase]
        cleared == [k \in 0 .. (2 * Limbs - 1) |-> IF k >= Limbs THEN 0 ELSE u[k]]
    IN  FoldShift(FoldMul(cleared, high, 0, 0), high, 0, 0)

\* A fold that stops after its first iteration.
RECURSIVE FoldOneIteration(_, _)
FoldOneIteration(u, iter) ==
    IF iter < 1 /\ ~HighZero(u) THEN FoldOneIteration(FoldOnce(u), iter + 1)
    ELSE [u |-> u, iter |-> iter]

\* for (iter = 0; iter < 6; iter++) { if (high_zero) break; ... }: the words
\* the loop leaves and the iterations it ran.
RECURSIVE Fold(_, _)
Fold(u, iter) ==
    IF iter < FoldIterations /\ ~HighZero(u) THEN Fold(FoldOnce(u), iter + 1)
    ELSE [u |-> u, iter |-> iter]

\* while (gte(&final_res, &P)) sub_b(&final_res, &final_res, &P).
RECURSIVE FinalSubtract(_)
FinalSubtract(mem) ==
    IF gte(mem, "mul.final_res", "mul.P")
    THEN FinalSubtract(sub_b(mem, "mul.final_res", "mul.final_res", "mul.P").mem)
    ELSE mem

\* What the fold leaves of a * b.
MulFolded(mem, a, b) ==
    Fold(MulOuter([k \in 0 .. (2 * Limbs - 1) |-> 0], mem[a], mem[b], 0), 0)

\* mod_mul(result, a, b): the product in u, the fold, the low words copied
\* to final_res, the subtraction loop, *result = final_res.
mod_mul_words(mem, result, a, b) ==
    LET f  == MulFolded(mem, a, b)
        m0 == [mem EXCEPT !["mul.final_res"] = [i \in Words |-> f.u[i] % WordBase],
                          !["mul.P"] = P_CONST]
        m1 == FinalSubtract(m0)
    IN  [m1 EXCEPT ![result] = m1["mul.final_res"]]

\* The bits of a word.
WordBits == 4

\* is_zero on the words.
is_zero_words(w) == \A i \in Words : w[i] = 0

\* Where the coordinates of a point are held: p and s are point_j, q is a
\* point_a.
PointLoc ==
    [p |-> [x |-> "p.x", y |-> "p.y", z |-> "p.z"],
     s |-> [x |-> "s.x", y |-> "s.y", z |-> "s.z"],
     q |-> [x |-> "q.x", y |-> "q.y", z |-> "q.x"]]

\* The steps of a routine: a field routine and its three arguments, "set"
\* for set_u64 and load_const, "copy" for uint256_copy and the assignment
\* of a uint256, "sub_b", and "mul_if" for the multiplication mod_pow makes
\* when a bit of the exponent is set.

\* A mod_pow that keeps its running product in *result.
RECURSIVE PowBitsInPlace(_, _, _, _)
PowBitsInPlace(result, exp, i, j) ==
    IF i = Limbs THEN <<>>
    ELSE IF j = WordBits THEN PowBitsInPlace(result, exp, i + 1, 0)
    ELSE << <<"mul_if", exp, i, j, result>>, <<"mul", "pow.b", "pow.b", "pow.b">> >>
         \o PowBitsInPlace(result, exp, i, j + 1)

mod_pow_in_place(result, base, exp) ==
    << <<"set", result, 1>>, <<"copy", "pow.b", base>> >>
    \o PowBitsInPlace(result, exp, 0, 0)

\* mod_pow, the loops: for bit j of word i of exp, r = r * b if it is set,
\* then b = b * b.
RECURSIVE PowBits(_, _, _)
PowBits(exp, i, j) ==
    IF i = Limbs THEN <<>>
    ELSE IF j = WordBits THEN PowBits(exp, i + 1, 0)
    ELSE << <<"mul_if", exp, i, j, "pow.r">>, <<"mul", "pow.b", "pow.b", "pow.b">> >>
         \o PowBits(exp, i, j + 1)

\* mod_pow(result, base, exp): r = 1 and b = *base are private, *result = r
\* comes last.
mod_pow_steps(result, base, exp) ==
    << <<"set", "pow.r", 1>>, <<"copy", "pow.b", base>> >>
    \o PowBits(exp, 0, 0)
    \o << <<"copy", result, "pow.r">> >>

\* mod_inv(result, a): a to the power p - 2.
mod_inv_steps(result, a) ==
    << <<"set", "inv.P_minus_2", FieldP>>, <<"set", "inv.two", 2>>,
       <<"sub_b", "inv.P_minus_2", "inv.P_minus_2", "inv.two">> >>
    \o mod_pow_steps(result, a, "inv.P_minus_2")

\* The body of j_add_mixed past its two early returns.
AddMixedSteps(p, q) ==
    LET px == PointLoc[p].x
        py == PointLoc[p].y
        pz == PointLoc[p].z
        qx == PointLoc[q].x
        qy == PointLoc[q].y
    IN  << <<"mul", "jam.Z1Z1", pz, pz>>,
           <<"mul", "jam.U2", qx, "jam.Z1Z1">>,
           <<"mul", "jam.S2", qy, pz>>,
           <<"mul", "jam.S2", "jam.S2", "jam.Z1Z1">>,
           <<"sub", "jam.H", "jam.U2", px>>,
           <<"mul", "jam.HH", "jam.H", "jam.H">>,
           <<"add", "jam.I", "jam.HH", "jam.HH">>,
           <<"add", "jam.I", "jam.I", "jam.I">>,
           <<"mul", "jam.J", "jam.H", "jam.I">>,
           <<"sub", "jam.r_val", "jam.S2", py>>,
           <<"add", "jam.r_val", "jam.r_val", "jam.r_val">>,
           <<"mul", "jam.V", px, "jam.I">>,
           <<"mul", "jam.rx", "jam.r_val", "jam.r_val">>,
           <<"sub", "jam.rx", "jam.rx", "jam.J">>,
           <<"sub", "jam.rx", "jam.rx", "jam.V">>,
           <<"sub", "jam.rx", "jam.rx", "jam.V">>,
           <<"sub", "jam.tmp", "jam.V", "jam.rx">>,
           <<"mul", "jam.ry", "jam.r_val", "jam.tmp">>,
           <<"mul", "jam.tmp", py, "jam.J">>,
           <<"add", "jam.tmp", "jam.tmp", "jam.tmp">>,
           <<"sub", "jam.ry", "jam.ry", "jam.tmp">>,
           <<"mul", "jam.rz", pz, "jam.H">>,
           <<"add", "jam.rz", "jam.rz", "jam.rz">> >>

\* j_add_mixed(r, p, q) on a p with Z = 0 if pInfinity, on a q of zeros if
\* qZero: the copy of q with Z = 1, *r = *p, or the body and the three
\* assignments that close it.
j_add_mixed_steps(r, p, q, pInfinity, qZero) ==
    LET R == PointLoc[r]
        P == PointLoc[p]
        Q == PointLoc[q]
    IN  IF pInfinity
        THEN << <<"copy", R.x, Q.x>>, <<"copy", R.y, Q.y>>, <<"set", R.z, 1>> >>
        ELSE IF qZero
        THEN << <<"copy", R.x, P.x>>, <<"copy", R.y, P.y>>, <<"copy", R.z, P.z>> >>
        ELSE AddMixedSteps(p, q)
             \o << <<"copy", R.x, "jam.rx">>, <<"copy", R.y, "jam.ry">>,
                   <<"copy", R.z, "jam.rz">> >>

\* One step on the memory.
FieldStep(mem, st) ==
    CASE st[1] = "mul"    -> mod_mul_words(mem, st[2], st[3], st[4])
      [] st[1] = "add"    -> mod_add_words(mem, st[2], st[3], st[4])
      [] st[1] = "sub"    -> mod_sub_words(mem, st[2], st[3], st[4])
      [] st[1] = "sub_b"  -> sub_b(mem, st[2], st[3], st[4]).mem
      [] st[1] = "set"    -> [mem EXCEPT ![st[2]] = ToWords(st[3])]
      [] st[1] = "copy"   -> [mem EXCEPT ![st[2]] = mem[st[3]]]
      [] st[1] = "mul_if" ->
            IF (mem[st[2]][st[3]] \div Pow(2, st[4])) % 2 = 1
            THEN mod_mul_words(mem, st[5], st[5], "pow.b") ELSE mem

\* The places a value is held in: those of the caller and the private
\* values of the routines.
CallerLocs == {"x", "y", "z", "p.x", "p.y", "p.z", "s.x", "s.y", "s.z", "q.x", "q.y"}
PrivateLocs ==
    {"add.P", "sub.P", "mul.final_res", "mul.P", "pow.r", "pow.b",
     "inv.P_minus_2", "inv.two",
     "jam.Z1Z1", "jam.U2", "jam.S2", "jam.H", "jam.HH", "jam.I", "jam.J",
     "jam.r_val", "jam.V", "jam.tmp", "jam.rx", "jam.ry", "jam.rz"}
Locs == CallerLocs \cup PrivateLocs

\* Memory with a at x, b at y and junk elsewhere.
MemOf(a, b) ==
    [l \in Locs |-> IF l = "x" THEN ToWords(a)
                    ELSE IF l = "y" THEN ToWords(b)
                    ELSE ToWords(WordBase + 1)]

\* mod_mul on every pair of field elements.
MulInputs == [op : {"mod_mul"}, a : 0 .. (FieldP - 1), b : 0 .. (FieldP - 1)]

MulInit ==
    /\ HostInit
    /\ LanesIdle
    /\ fin = [base |-> 0, gid |-> 0]
    /\ fout = None
    /\ ScanIdle
    /\ MatchIdle
    /\ ExtraIdleExcept({"field"})
    /\ qIn \in MulInputs
    /\ qOut = None

\* mod_mul(&z, &x, &y).
MulApply ==
    /\ FieldFrame
    /\ qIn.op = "mod_mul"
    /\ qOut = None
    /\ LET mem == MemOf(qIn.a, qIn.b)
           f   == MulFolded(mem, "x", "y")
       IN  qOut' = [result |-> WordsValue(mod_mul_words(mem, "z", "x", "y")["z"]),
                    highZero |-> HighZero(f.u),
                    iter |-> f.iter]
    /\ UNCHANGED qIn

MulNext == MulApply

MulSpec == MulInit /\ [][MulNext]_vars

(* ---------------------------------------------------------------------- *)
(* The field routines called with the output on top of an input            *)
(* ---------------------------------------------------------------------- *)

\* The field elements the routines are called on.
FieldSamples == {0, 1, 2, 15, 16, 100, 213, FieldP - 1}

\* The Jacobian points j_add_mixed is called on: base points as the host
\* uploads them, a point with Z other than 1, points at infinity.
JacobianSamples ==
    {computeBasePointJacobian(b) : b \in {1, 2, 100}}
    \cup {j_add_mixed(computeBasePointJacobian(5), Entry(GenerateTable, 2)),
          <<0, 0, 0>>, <<3, 7, 0>>}

\* The affine points: the entries of the table.
AffineSamples == {Entry(GenerateTable, i) : i \in 0 .. (globalWorkSize - 1)}

\* A call: the routine, the places of its inputs and output, the values
\* held at x and y, or the points held at p and q.
FieldCalls ==
    [op : {"mod_add", "mod_sub", "mod_mul", "mod_pow"},
     a : {"x", "y"}, b : {"x", "y"}, r : {"x", "y", "z"},
     x : FieldSamples, y : FieldSamples]

InvCalls == [op : {"mod_inv"}, a : {"x"}, r : {"x", "z"}, x : FieldSamples]

AddMixedCalls ==
    [op : {"j_add_mixed"}, r : {"p", "s"}, p : JacobianSamples, q : AffineSamples]

\* The memory a call of j_add_mixed finds.
MemOfPoints(p, q) ==
    [l \in Locs |->
        CASE l = "p.x" -> ToWords(p[1])
          [] l = "p.y" -> ToWords(p[2])
          [] l = "p.z" -> ToWords(p[3])
          [] l = "q.x" -> ToWords(q[1])
          [] l = "q.y" -> ToWords(q[2])
          [] OTHER     -> ToWords(WordBase + 1)]

\* The memory a call finds and the steps it makes.
CallMem(c) ==
    CASE c.op = "j_add_mixed" -> MemOfPoints(c.p, c.q)
      [] c.op = "mod_inv"     -> MemOf(c.x, 0)
      [] OTHER                -> MemOf(c.x, c.y)

CallSteps(c) ==
    CASE c.op = "mod_add" -> << <<"add", c.r, c.a, c.b>> >>
      [] c.op = "mod_sub" -> << <<"sub", c.r, c.a, c.b>> >>
      [] c.op = "mod_mul" -> << <<"mul", c.r, c.a, c.b>> >>
      [] c.op = "mod_pow" -> mod_pow_steps(c.r, c.a, c.b)
      [] c.op = "mod_inv" -> mod_inv_steps(c.r, c.a)
      [] c.op = "j_add_mixed" ->
            j_add_mixed_steps(c.r, "p", "q", is_zero(c.p[3]),
                              is_zero(c.q[1]) /\ is_zero(c.q[2]))

AliasInit ==
    /\ HostInit
    /\ LanesIdle
    /\ fin = [base |-> 0, gid |-> 0]
    /\ fout = None
    /\ ScanIdle
    /\ MatchIdle
    /\ ExtraIdleExcept({"field"})
    /\ qIn \in FieldCalls \cup InvCalls \cup AddMixedCalls
    /\ qOut = [pc |-> 1, mem |-> CallMem(qIn)]

\* The next step of the call is made.
CallStep ==
    /\ qOut.pc <= Len(CallSteps(qIn))
    /\ qOut' = [pc |-> qOut.pc + 1,
                mem |-> FieldStep(qOut.mem, CallSteps(qIn)[qOut.pc])]
    /\ UNCHANGED qIn

\* mod_add, mod_sub or mod_mul is called.
ApplyField ==
    /\ FieldFrame
    /\ qIn.op \in {"mod_add", "mod_sub", "mod_mul"}
    /\ CallStep

\* A step of mod_pow.
StepPow ==
    /\ FieldFrame
    /\ qIn.op = "mod_pow"
    /\ CallStep

\* A step of mod_inv.
StepInv ==
    /\ FieldFrame
    /\ qIn.op = "mod_inv"
    /\ CallStep

\* A step of j_add_mixed.
StepAddMixed ==
    /\ FieldFrame
    /\ qIn.op = "j_add_mixed"
    /\ CallStep

AliasNext ==
    \/ ApplyField
    \/ StepPow
    \/ StepInv
    \/ StepAddMixed

AliasSpec == AliasInit /\ [][AliasNext]_vars

\* The call has returned; what it left in its output.
CallOver == qIn.op # "none" /\ qOut.pc > Len(CallSteps(qIn))

CallResult ==
    IF qIn.op = "j_add_mixed"
    THEN <<WordsValue(qOut.mem[PointLoc[qIn.r].x]),
           WordsValue(qOut.mem[PointLoc[qIn.r].y]),
           WordsValue(qOut.mem[PointLoc[qIn.r].z])>>
    ELSE WordsValue(qOut.mem[qIn.r])

(* ---------------------------------------------------------------------- *)
(* Properties of the host search                                           *)
(* ---------------------------------------------------------------------- *)

\* C1: a Result is published only if the address derived on the CPU from
\* pk = b + gid equals, byte for byte, the address read back from the
\* device.
C1_PublishedOnlyIfVerified ==
    published # None =>
        PubkeyToAddress(ReconstructKey(published.base, published.foundGid))
            = published.hostOutput

\* What the caller of the search has been given.  Start always returns a
\* nil error and nothing closes the channel, so it is a Result or nothing.
CallerOutcome ==
    IF received # None \/ resultChan # <<>> THEN "Result" ELSE "nothing"

\* C4: when a device write, the enqueue or a device read fails, the loop
\* stops at once and the caller receives a fatal DispatchFailure.
C4_DispatchFailureDelivered ==
    exit = "dispatch_error" => pc = "done" /\ CallerOutcome = "DispatchFailure"

\* C5: the private key of a published Result is (b + gid) mod 2^256 for the
\* base scalar b of the batch that matched, in exactly KeyLen bytes, that
\* is 2 * KeyLen hex characters.
C5_PublishedKey ==
    published # None =>
        LET hexKey == published.result.PrivateKey
            key    == DecodeString(hexKey)
        IN  /\ Len(hexKey) = 2 * KeyLen
            /\ Len(key) = KeyLen
            /\ SetBytes(key) = (published.base + published.foundGid) % ScalarMod

\* A Result was published for a lane other than lane 0, in a batch after
\* the first.
C5_Witness ==
    /\ published # None
    /\ published.foundGid > 0
    /\ batches > 0
    /\ resultChan # <<>>

\* C7: whichever code path wrote tables.bin, a complete file has the zero
\* marker in entry 0, G in entry 1 and entry[i] = entry[i-1] + G after it.
C7_TableRecurrence ==
    tablesBin.present /\ Len(tablesBin.data) = globalWorkSize =>
        /\ Entry(tablesBin.data, 0) = Infinity
        /\ Entry(tablesBin.data, 1) = <<Gx, Gy>>
        /\ \A i \in 1 .. (globalWorkSize - 1) :
              Entry(tablesBin.data, i)
                  = CurveAdd(Entry(tablesBin.data, i - 1), <<Gx, Gy>>)

\* C8: a search that ends because it saw the cancellation delivers the
\* outcome Cancelled to its caller.
C8_CancelledDelivered ==
    exit = "cancelled" => CallerOutcome = "Cancelled"

\* C9: once cancellation is requested the loop starts no batch after seeing
\* it, completes at most the batch in flight, and ends.
C9_CancelStopsLoop ==
    /\ [](cancelLog.started = 0 /\ cancelLog.completed <= 1)
    /\ (cancelled ~> pc \in {"done", "crashed"})

\* The loop saw the cancellation and returned after completing the batch
\* that was in flight when cancel() was called.
C9_Witness ==
    /\ cancelled
    /\ pc = "done"
    /\ exit = "cancelled"
    /\ cancelLog.completed = 1

\* C10: when the goroutine of a search has ended, by whatever path, no
\* buffer created for that search is still live.
C10_BuffersReleased ==
    pc \in {"done", "crashed"} => \A h \in live : h[2] # searches

\* The Ethereum host stands at clEnqueueNDRangeKernel with both device words
\* at 0.
EthZeroAtEnqueue == pc = "enqueue" => dev.flag = 0 /\ dev.gid = 0

\* The Tron kernel has just been enqueued, no lane has run: the flag is 0
\* and so is the gid, which the Tron kernel keeps in output[0..3].
TronZeroAtEnqueue ==
    (\A g \in Lanes : lpc[g] = "start") => found_flag = 0 /\ output.gid = 0

\* C11: at the moment each kernel is enqueued, found_flag and found_gid on
\* the device are both 0, in the first batch and in every later one.
C11_ZeroAtEnqueue == EthZeroAtEnqueue /\ TronZeroAtEnqueue

\* isValidHex: every character is one of 0-9, a-f, A-F.
isValidHex(s) == \A i \in 1 .. Len(s) : s[i] < NotHex

\* A pattern the search accepts: hex digits only, and prefix and suffix
\* together no longer than the address.
ValidPattern(config) ==
    /\ isValidHex(config.prefix)
    /\ isValidHex(config.suffix)
    /\ Len(config.prefix) + Len(config.suffix) <= 2 * AddrBytes

\* The goroutine of the search has been launched or has run.
GpuWorkStarted ==
    \/ pc \in {"create", "select", "upload", "enqueue", "readflag", "found"}
    \/ \E h \in live : h[2] = searches
    \/ dispatched.bases # <<>>
    \/ exit # "none"

\* C16: a pattern with a character outside 0-9, a-f, A-F, or with more
\* than 2 * AddrBytes nibbles in prefix and suffix together, is rejected at
\* the entry of the search, before any GPU work starts.
C16_InvalidPatternRejected ==
    searches > 0 /\ ~ValidPattern(dispatched.config) => ~GpuWorkStarted

\* tables.bin is there and does not hold exactly globalWorkSize entries.
WrongSize == tablesBin.present /\ Len(tablesBin.data) # globalWorkSize

\* C17: when tables.bin exists with a size other than globalWorkSize
\* entries, the setup of the search rejects it: the goroutine ends with a
\* buffer error, no table buffer is created on the device and no batch is
\* dispatched for that search.
C17_WrongSizeRejected ==
    /\ [][pc = "create" /\ WrongSize /\ pc' # pc =>
            /\ pc' = "done" /\ exit' = "buffer_error"
            /\ <<"bufTable", searches>> \notin live'
            /\ dev'.table = <<>>
            /\ dispatched'.bases = <<>>]_vars
    /\ [](exit = "buffer_error" => pc = "done" /\ dispatched.bases = <<>>)

\* A search ended at setup on a file one entry short, after it had created
\* the base point buffer.
C17_Witness ==
    /\ exit = "buffer_error"
    /\ tablesBin.present
    /\ Len(tablesBin.data) = globalWorkSize - 1
    /\ <<"bufBasePoint", searches>> \in live
    /\ <<"bufTable", searches>> \notin live

C12_BatchBases ==
    /\ \A k \in 1 .. Len(dispatched.bases) :
          dispatched.bases[k]
              = computeBasePointJacobian(dispatched.b0 + (k - 1) * globalWorkSize)
    /\ pc \in {"select", "upload", "enqueue"} =>
          /\ baseInt = dispatched.b0 + batches * globalWorkSize
          /\ Len(dispatched.bases) = batches

\* Three batches of one search have been dispatched.
C12_Witness ==
    /\ Len(dispatched.bases) = 3
    /\ pc = "readflag"
    /\ batches = 2

C19_ByteLevelEqualsHex == mOut # None => (mOut.kernel <=> mOut.hex)

\* C19 happens: a prefix and a suffix of odd length, meeting in the same
\* byte of the address, have been judged a match by both.
C19_Witness ==
    /\ mOut # None
    /\ Len(mIn.prefix) = 1
    /\ Len(mIn.suffix) = 2 * AddrBytes - 1
    /\ mIn.addr[1] = 16 * 11 + 1
    /\ mOut.kernel
    /\ mOut.hex

(* ---------------------------------------------------------------------- *)
(* Properties of the batch inversion                                       *)
(* ---------------------------------------------------------------------- *)

\* C14: for any non-zero Z values held by the lanes of one workgroup, the
\* invZ a lane computes from the exclusive prefix product, total_inv and
\* the suffix product at index lid + 1 (1 for the last lane) is the inverse
\* of its Z modulo p.
C14_BatchInverse ==
    \A lid \in ScanLids :
        ScanDone(lid) =>
            /\ mod_mul(ScanInvZ(lid), sZ[lid]) = 1
            /\ ScanInvZ(lid) = BatchInvZ(sZ, WORKGROUP_SIZE)[lid]

\* Every lane has computed its invZ from Z values that are not all equal.
C14_Witness ==
    /\ \A lid \in ScanLids : ScanDone(lid)
    /\ sZ[0] # sZ[1] /\ sZ[2] # sZ[3] /\ sZ[1] # sZ[2]

\* Two accesses to one cell between two barriers are by the same lane or
\* are both reads.
RaceFree ==
    \A c \in Cells : \A x, y \in sacc[c] :
        x[1] # y[1] => x[2] = "r" /\ y[2] = "r"

\* C15: with the barriers the kernel has, the scans are race-free: between
\* two consecutive barriers no cell of __local memory is written by one
\* lane and read or written by another, and total_inv is never read before
\* lane 0 has written it.
C15_ScansRaceFree == RaceFree /\ sunset = {}

\* Past all the scans, a lane other than lane 0 has read total_inv and
\* another its neighbour's suffix cell.
C15_Witness ==
    /\ <<1, "r">> \in sacc[<<"total_inv", 0>>]
    /\ <<2, "r">> \in sacc[<<"suffix", 3>>]
    /\ smem[<<"total_inv", 0>>] # Unset

(* ---------------------------------------------------------------------- *)
(* Properties of a dispatch of the Tron kernel                             *)
(* ---------------------------------------------------------------------- *)

\* The lanes that matched and ran the atomic exchange, and those among
\* them that got 0 back.
Contenders == {g \in Lanes : kold[g] # -1}
Winners == {g \in Lanes : kold[g] = 0}

\* C2: of the lanes that match in a dispatch exactly one, the one whose
\* atomic operation on found_flag returned 0, writes to the output; no
\* other lane writes anything, so the gid and the address the host reads
\* after the dispatch are those of that one lane.
C2_OneLaneWrites ==
    /\ Cardinality(Winners) <= 1
    /\ Contenders # {} => Cardinality(Winners) = 1
    /\ kwrote \subseteq Winners
    /\ DispatchOver /\ found_flag # 0 =>
          \E w \in Winners : output.gid = w /\ output.address = laddr[w]

\* Several lanes of both workgroups matched, the dispatch is over and the
\* output holds the winner's gid.
C2_Witness ==
    /\ DispatchOver
    /\ \E g, h \in Contenders : g \div localWorkSize # h \div localWorkSize
    /\ output.gid \in Winners
    /\ kwrote # {}

\* C3: no lane leaves the kernel before a barrier at which another lane of
\* its workgroup waits, whatever found_flag holds while the dispatch runs.
C3_AllLanesReachEachBarrier ==
    \A g \in Lanes : \A h \in Group(g) :
        ~(lpc[g] = "exited" /\ lpc[h] = "barrier")

\* The address the CPU derives from private key k, if k is a valid key.
CpuAddress(k) ==
    IF ToECDSA(pad32(IntBytes(k))) THEN PubkeyToAddress(k) ELSE None

Collides(b, g) ==
    \E h \in Group(g) : h >= 1 /\ (h = b \/ b + h = CurveN)

C20_EdgeLanes ==
    /\ pc = "enqueue" /\ dev.table = GenerateTable =>
           /\ Entry(dev.table, 0) = Infinity
           /\ LaneSum(dev.base, dev.table, 0) = dev.base
    /\ published # None =>
           LET g == published.foundGid
               B == computeBasePointJacobian(published.base)
           IN  /\ g \in Lanes
               /\ published.hostOutput = compute_address(B, published.table, g)
               /\ KernelMatch(published.hostOutput, kargs)
               /\ SetBytes(DecodeString(published.result.PrivateKey))
                      = published.base + g
               /\ published.table = GenerateTable /\ ~Collides(published.base, g) =>
                      published.hostOutput = PubkeyToAddress(published.base + g)

\* C20 happens: a Result was published for lane 0 of a batch run with the
\* table GenerateTable makes, and its key b is the key of the address the
\* device reported.
C20_Witness ==
    /\ published # None
    /\ published.foundGid = 0
    /\ published.table = GenerateTable
    /\ published.result.PrivateKey = EncodeToString(pad32(IntBytes(published.base)))
    /\ published.result.Address = EncodeToString(published.hostOutput)

\* The same for the last lane of a batch.
C20_LastLanePublished ==
    /\ published # None
    /\ published.foundGid = globalWorkSize - 1
    /\ published.table = GenerateTable
    /\ published.result.Address = EncodeToString(published.hostOutput)

(* ---------------------------------------------------------------------- *)
(* Properties of Stats                                                     *)
(* ---------------------------------------------------------------------- *)

\* C21: Stats, called from a goroutine of its own while a search runs and
\* while Start runs, reads the attempts counter and the start time without a
\* data race: no access to g.startTime is unordered with a write to it, and
\* the time Stats has read is a time some Start stored, never a mix of two.
C21_StatsRaceFree ==
    /\ races = {}
    /\ statsPc = "ext" => statsRegs.wall = statsRegs.ext

(* ---------------------------------------------------------------------- *)
(* Properties of the Tron Result                                           *)
(* ---------------------------------------------------------------------- *)

\* C22: for every Result of the Tron GPU backend the Tron address derived on
\* the CPU from the published private key is the published address,
\* whichever generator wrote the table that was loaded.
C22_TronKeyMatchesAddress ==
    rOut # None /\ rOut.found =>
        TronCpuAddress(SetBytes(DecodeString(rOut.PrivateKey))) = rOut.Address

(* ---------------------------------------------------------------------- *)
(* Properties of a second Start                                            *)
(* ---------------------------------------------------------------------- *)

\* C23: when Start is called again after the previous search was cancelled
\* or delivered its Result, the goroutine of the previous search neither
\* releases nor operates on the buffers of the new search, and the new
\* search never dispatches on a released buffer.
C23_SearchesKeepApart == misuse = {}

(* ---------------------------------------------------------------------- *)
(* Properties of a lane beside a lane with Z = 0                           *)
(* ---------------------------------------------------------------------- *)

\* C24: a lane whose own sum has a non-zero Z obtains invZ = Z^-1 and so
\* the address of b + gid, whatever the Z of the other lanes of its
\* workgroup, also when the Z of another lane is 0.
C24_LaneIndependent ==
    fout # None =>
        LET B     == computeBasePointJacobian(fin.base)
            first == (fin.gid \div localWorkSize) * localWorkSize
            lid   == fin.gid % localWorkSize
            Z     == [l \in Lids |-> LaneSum(B, GenerateTable, first + l)[3]]
        IN  Z[lid] # 0 =>
                /\ BatchInvZ(Z, localWorkSize)[lid] = mod_inv(Z[lid])
                /\ LibAccepts(fin.base + fin.gid) =>
                       fout = PubkeyToAddress(fin.base + fin.gid)

(* ---------------------------------------------------------------------- *)
(* Properties of the CPU search                                            *)
(* ---------------------------------------------------------------------- *)

\* C25: in a CPU search with several workers at most one Result is ever
\* sent on the result channel.
C25_AtMostOneResult == Len(cSent) <= 1

(* ---------------------------------------------------------------------- *)
(* Properties of the Ed25519 output                                        *)
(* ---------------------------------------------------------------------- *)

\* C26: when several lanes of a batch match, the output the host reads
\* after the dispatch holds the length marker and the whole seed of one
\* matching lane, never bytes of two lanes.
C26_OutputOfOneLane ==
    EdDispatchOver /\ eOut[0] # 0 =>
        \E g \in EdLanes :
            /\ eIn.length[g] # 0
            /\ eOut[0] = eIn.length[g]
            /\ \A j \in 1 .. SeedLen : eOut[j] = key_base(g)[j]

(* ---------------------------------------------------------------------- *)
(* Properties of the pattern across searches                               *)
(* ---------------------------------------------------------------------- *)

\* The kernel arguments in force were set by createBuffers of this search.
ArgsOfThisSearch == pc \notin {"idle", "create", "done", "crashed"}

\* C27: a search matches against the prefix and suffix of its own
\* configuration only: where a field of the configuration is empty, the
\* generator's bytes and odd flag are empty and false from Start on, and the
\* kernel is given length 0, flag 0 and a buffer of zeros, whatever an earlier
\* search on the generator stored; where it is not empty, the kernel is
\* given the bytes of this configuration.
C27_OwnPatternOnly ==
    LET c == dispatched.config
    IN  /\ (searches > 0 /\ c.prefix = <<>>) =>
                /\ gen.prefixBytes = <<>> /\ ~gen.prefixIsOdd
                /\ ArgsOfThisSearch =>
                       /\ kargs.prefixLen = 0 /\ ~kargs.prefixOdd
                       /\ kargs.prefix = PatternData(<<>>)
        /\ (searches > 0 /\ c.suffix = <<>>) =>
                /\ gen.suffixBytes = <<>> /\ ~gen.suffixIsOdd
                /\ ArgsOfThisSearch =>
                       /\ kargs.suffixLen = 0 /\ ~kargs.suffixOdd
                       /\ kargs.suffix = PatternData(<<>>)
        /\ (ArgsOfThisSearch /\ c.prefix # <<>>) =>
                /\ kargs.prefix = PatternData(DecodeString(padHex(c.prefix)))
                /\ kargs.prefixOdd = (Len(c.prefix) % 2 = 1)
        /\ (ArgsOfThisSearch /\ c.suffix # <<>>) =>
                /\ kargs.suffix = PatternData(DecodeString(padSuffix(c.suffix)))
                /\ kargs.suffixOdd = (Len(c.suffix) % 2 = 1)

\* C27 witness: a second search without a prefix has been started on a
\* generator whose kernel arguments still hold the odd-length prefix of the
\* search before it.
C27_Witness ==
    /\ searches = 2
    /\ pc = "create"
    /\ dispatched.config.prefix = <<>>
    /\ kargs.prefixLen # 0 /\ kargs.prefixOdd
    /\ gen.prefixBytes = <<>> /\ ~gen.prefixIsOdd

\* C27 witness: the kernel arguments of a second search that has a suffix
\* and no prefix are set.
C27_WitnessArgs ==
    /\ searches = 2
    /\ ArgsOfThisSearch
    /\ dispatched.config.prefix = <<>>
    /\ kargs.prefixLen = 0 /\ kargs.suffixLen # 0

(* ---------------------------------------------------------------------- *)
(* Properties of the prefix scan                                           *)
(* ---------------------------------------------------------------------- *)

\* Z[0] * ... * Z[i - 1] modulo p, 1 for i = 0.
RECURSIVE ProductBefore(_, _)
ProductBefore(Z, i) ==
    IF i = 0 THEN 1 ELSE (ProductBefore(Z, i - 1) * Z[i - 1]) % FieldP

\* The workgroup is past the barrier that closes the down-sweep.
DownSweepOver == \A lid \in ScanLids : spc[lid] >= PastDownSweep(lid)

\* C28: after the up-sweep, the write of 1 into the last cell and the
\* down-sweep, prefix[i] is the product of the Z values of the lanes before
\* i, and 1 for i = 0: the scan is an exclusive prefix product.
C28_ExclusivePrefixProduct ==
    DownSweepOver =>
        \A i \in ScanLids :
            /\ smem[<<"prefix", i>>] = ProductBefore(sZ, i)
            /\ ExclusivePrefix(sZ, WORKGROUP_SIZE)[i] = ProductBefore(sZ, i)

\* C28 witness: the lanes stand right behind the barrier of the down-sweep
\* with Z values of which no two neighbours are equal, the products other
\* than 1.
C28_Witness ==
    /\ \A lid \in ScanLids : spc[lid] = PastDownSweep(lid)
    /\ sZ[0] # sZ[1] /\ sZ[1] # sZ[2] /\ sZ[2] # sZ[3]
    /\ smem[<<"prefix", 0>>] = 1
    /\ smem[<<"prefix", 3>>] = (sZ[0] * sZ[1] * sZ[2]) % FieldP
    /\ smem[<<"prefix", 3>>] \notin {0, 1}

(* ---------------------------------------------------------------------- *)
(* Properties of the field routines                                        *)
(* ---------------------------------------------------------------------- *)

\* C29: for all a, b in [0, p) mod_mul returns a * b mod p, a value in
\* [0, p): the fold leaves the high words zero within its six iterations,
\* so that no high word other than zero is dropped before the subtraction
\* loop.
C29_MulModP ==
    qOut # None /\ qIn.op = "mod_mul" =>
        /\ qOut.highZero
        /\ qOut.iter <= FoldIterations
        /\ qOut.result = (qIn.a * qIn.b) % FieldP
        /\ qOut.result \in 0 .. (FieldP - 1)
        /\ qOut.result = mod_mul(qIn.a, qIn.b)

\* C29 witness: the product of the two largest field elements has been
\* folded more than once.
C29_Witness ==
    /\ qOut # None
    /\ qIn.op = "mod_mul"
    /\ qIn.a = FieldP - 1 /\ qIn.b = FieldP - 1
    /\ qOut.iter > 1
    /\ qOut.result = 1

\* The value of a call, computed on integers from the values of its
\* inputs alone.
CallValue(c) ==
    LET a == IF c.op = "j_add_mixed" THEN 0 ELSE IF c.a = "x" THEN c.x ELSE c.y
        b == IF c.op \in {"j_add_mixed", "mod_inv"} THEN 0
             ELSE IF c.b = "x" THEN c.x ELSE c.y
    IN  CASE c.op = "mod_add" -> mod_add(a, b)
          [] c.op = "mod_sub" -> mod_sub(a, b)
          [] c.op = "mod_mul" -> mod_mul(a, b)
          [] c.op = "mod_pow" -> mod_pow(a, b)
          [] c.op = "mod_inv" -> mod_inv(a)
          [] c.op = "j_add_mixed" -> j_add_mixed(c.p, c.q)

\* C30: mod_add, mod_sub, mod_mul, mod_pow, mod_inv and j_add_mixed return
\* the same value with the output on top of one or both inputs as with the
\* output in a place of its own: what a call leaves in its output is the
\* value of its inputs, wherever the output is.
C30_AliasSafe == CallOver => CallResult = CallValue(qIn)

\* C30 witness: mod_pow has returned from a call with its output on top of
\* its base and its exponent at once, with a result that is neither.
C30_Witness ==
    /\ CallOver
    /\ qIn.op = "mod_pow"
    /\ qIn.a = "x" /\ qIn.b = "x" /\ qIn.r = "x"
    /\ qIn.x = 100
    /\ CallResult \notin {0, 1, 100}

\* C30 witness: j_add_mixed has returned from a call with its sum on top
\* of a point whose Z is other than 0 and 1.
C30_WitnessAddMixed ==
    /\ CallOver
    /\ qIn.op = "j_add_mixed"
    /\ qIn.r = "p"
    /\ qIn.p[3] \notin {0, 1}
    /\ qIn.q # <<0, 0>>
    /\ CallResult # qIn.p

====
